---------------------------- MODULE Spec2Model ----------------------------
(***************************************************************************)
(* Lead enrichment engine: signal detection, scoring, intent               *)
(* classification, recommendation and conversation starters, with the      *)
(* SERP gateway and the preset loader that feed them.                      *)
(*                                                                         *)
(* Python values are modelled as follows.                                  *)
(*   str    a sequence of one-character strings, <<"a", "b">> for "ab"      *)
(*   list   a sequence; an insertion-ordered dict of signal groups is a    *)
(*          sequence of records carrying the key in the field `name`       *)
(*   JSON   a tagged record [t |-> "null" | "num" | "str" | "list" |       *)
(*          "dict", v |-> ...] wherever the code does not know the type    *)
(*   raise  a result record whose field `raised` names the exception       *)
(*          ("none" when the call returns)                                 *)
(***************************************************************************)
EXTENDS Integers, Sequences, FiniteSets, TLC

VARIABLES
    config_CUSTOM_SIGNALS,   \* config.CUSTOM_SIGNALS, the attribute of module config
    tracker_CUSTOM_SIGNALS,  \* the name CUSTOM_SIGNALS bound in module signal_tracker
    signals_config,          \* self.tracker.signals_config of the engine in use
    thresholds,              \* self.tracker.thresholds of the engine in use
    active_preset,           \* history: the preset last applied successfully
    call,                    \* the last operation and its inputs
    ret                      \* what the last operation returned or raised

vars == <<config_CUSTOM_SIGNALS, tracker_CUSTOM_SIGNALS, signals_config,
          thresholds, active_preset, call, ret>>

(***************************************************************************)
(* Python str operations                                                   *)
(***************************************************************************)
UpperLetters == <<"A", "B", "C", "D", "E", "F", "G", "H", "I", "J", "K", "L", "M",
                  "N", "O", "P", "Q", "R", "S", "T", "U", "V", "W", "X", "Y", "Z">>

LowerLetters == <<"a", "b", "c", "d", "e", "f", "g", "h", "i", "j", "k", "l", "m",
                  "n", "o", "p", "q", "r", "s", "t", "u", "v", "w", "x", "y", "z">>

\* the lower-case letter of each upper-case letter, and the converse
LowerOf == [c \in {UpperLetters[i] : i \in 1..26} |->
               LowerLetters[CHOOSE i \in 1..26 : UpperLetters[i] = c]]

UpperOf == [c \in {LowerLetters[i] : i \in 1..26} |->
               UpperLetters[CHOOSE i \in 1..26 : LowerLetters[i] = c]]

IsCased(c) == c \in DOMAIN LowerOf \/ c \in DOMAIN UpperOf

LowerChar(c) == IF c \in DOMAIN LowerOf THEN LowerOf[c] ELSE c

UpperChar(c) == IF c \in DOMAIN UpperOf THEN UpperOf[c] ELSE c

\* str.lower()
ToLower(s) == [i \in 1..Len(s) |-> LowerChar(s[i])]

\* str.title(): a cased character is upper-cased when it follows an uncased
\* character (or starts the string) and lower-cased otherwise
Title(s) ==
    [i \in 1..Len(s) |->
        IF i > 1 /\ IsCased(s[i - 1]) THEN LowerChar(s[i]) ELSE UpperChar(s[i])]

\* s[i:i+len(sub)] == sub
MatchesAt(s, sub, i) ==
    /\ i + Len(sub) - 1 <= Len(s)
    /\ \A j \in 1..Len(sub) : s[i + j - 1] = sub[j]

\* sub in s
StrContains(s, sub) == \E i \in 1..(Len(s) - Len(sub) + 1) : MatchesAt(s, sub, i)

\* s.endswith(suffix)
EndsWith(s, suffix) ==
    /\ Len(suffix) <= Len(s)
    /\ MatchesAt(s, suffix, Len(s) - Len(suffix) + 1)

\* s[:n]
Prefix(s, n) == SubSeq(s, 1, IF n < Len(s) THEN n ELSE Len(s))

\* s.replace(old, new) for a non-empty old: every non-overlapping occurrence,
\* scanning from the left
RECURSIVE StrReplace(_, _, _)
StrReplace(s, old, new) ==
    IF Len(s) < Len(old) THEN s
    ELSE IF MatchesAt(s, old, 1)
         THEN new \o StrReplace(SubSeq(s, Len(old) + 1, Len(s)), old, new)
         ELSE <<s[1]>> \o StrReplace(Tail(s), old, new)

(***************************************************************************)
(* Dynamically typed values: JSON payloads and optional arguments          *)
(***************************************************************************)
JNull == [t |-> "null"]

JNum(n) == [t |-> "num", v |-> n]

JStr(s) == [t |-> "str", v |-> s]

JList(items) == [t |-> "list", v |-> items]

JDict(fields) == [t |-> "dict", v |-> fields]

\* bool(value): None, 0, "", [] and {} are false
Truthy(value) ==
    CASE value.t = "null" -> FALSE
      [] value.t = "num"  -> value.v # 0
      [] value.t = "str"  -> Len(value.v) > 0
      [] value.t = "list" -> Len(value.v) > 0
      [] value.t = "dict" -> DOMAIN value.v # {}

\* {}
EmptyDict == [key \in {} |-> JNull]

\* dict.get(key, default) on a value known to be a dict
DictGet(dict, key, default) ==
    IF key \in DOMAIN dict.v THEN dict.v[key] ELSE default

(***************************************************************************)
(* config.py: the signal groups and the thresholds                         *)
(***************************************************************************)
\* A query template is the sequence of its literal pieces and placeholders.
Lit(s) == [ph |-> "", lit |-> s]

Ph(field) == [ph |-> field, lit |-> <<>>]

hiring_signals == <<"h", "i", "r", "i", "n", "g", "_", "s", "i", "g", "n", "a", "l", "s">>

pain_point_signals == <<"p", "a", "i", "n", "_", "p", "o", "i", "n", "t", "_", "s", "i", "g", "n", "a", "l", "s">>

tech_stack_signals == <<"t", "e", "c", "h", "_", "s", "t", "a", "c", "k", "_", "s", "i", "g", "n", "a", "l", "s">>

strategic_signals == <<"s", "t", "r", "a", "t", "e", "g", "i", "c", "_", "s", "i", "g", "n", "a", "l", "s">>

\* '{company_name} hiring {keyword}'
HiringTemplate == <<Ph("company_name"), Lit(<<" ", "h", "i", "r", "i", "n", "g", " ">>), Ph("keyword")>>

\* '{company_name} {keyword}'
PlainTemplate == <<Ph("company_name"), Lit(<<" ">>), Ph("keyword")>>

\* '{company_name} uses {keyword}'
UsesTemplate == <<Ph("company_name"), Lit(<<" ", "u", "s", "e", "s", " ">>), Ph("keyword")>>

\* '{company_name} using {keyword}'
UsingTemplate == <<Ph("company_name"), Lit(<<" ", "u", "s", "i", "n", "g", " ">>), Ph("keyword")>>

kw_data_engineer == <<"d", "a", "t", "a", " ", "e", "n", "g", "i", "n", "e", "e", "r">>

kw_machine_learning_engineer == <<
    "m", "a", "c", "h", "i", "n", "e", " ", "l", "e", "a", "r", "n", "i", "n", "g", " ", "e",
    "n", "g", "i", "n", "e", "e", "r">>

kw_Snowflake == <<"S", "n", "o", "w", "f", "l", "a", "k", "e">>

kw_dbt == <<"d", "b", "t">>

kw_manual_data_processes == <<
    "m", "a", "n", "u", "a", "l", " ", "d", "a", "t", "a", " ", "p", "r", "o", "c", "e", "s",
    "s", "e", "s">>

kw_data_quality_issues == <<
    "d", "a", "t", "a", " ", "q", "u", "a", "l", "i", "t", "y", " ", "i", "s", "s", "u", "e",
    "s">>

kw_slow_reporting == <<"s", "l", "o", "w", " ", "r", "e", "p", "o", "r", "t", "i", "n", "g">>

kw_Databricks == <<"D", "a", "t", "a", "b", "r", "i", "c", "k", "s">>

kw_modern_data_stack == <<"m", "o", "d", "e", "r", "n", " ", "d", "a", "t", "a", " ", "s", "t", "a", "c", "k">>

kw_data_strategy == <<"d", "a", "t", "a", " ", "s", "t", "r", "a", "t", "e", "g", "y">>

kw_analytics_transformation == <<
    "a", "n", "a", "l", "y", "t", "i", "c", "s", " ", "t", "r", "a", "n", "s", "f", "o", "r",
    "m", "a", "t", "i", "o", "n">>

\* config.CUSTOM_SIGNALS as shipped
DefaultSignals == <<
    [name |-> hiring_signals, enabled |-> TRUE, weight |-> 25,
     keywords |-> <<kw_data_engineer, kw_machine_learning_engineer, kw_Snowflake, kw_dbt>>,
     query_template |-> HiringTemplate],
    [name |-> pain_point_signals, enabled |-> TRUE, weight |-> 35,
     keywords |-> <<kw_manual_data_processes, kw_data_quality_issues, kw_slow_reporting>>,
     query_template |-> PlainTemplate],
    [name |-> tech_stack_signals, enabled |-> TRUE, weight |-> 25,
     keywords |-> <<kw_Snowflake, kw_Databricks, kw_modern_data_stack>>,
     query_template |-> UsesTemplate],
    [name |-> strategic_signals, enabled |-> TRUE, weight |-> 15,
     keywords |-> <<kw_data_strategy, kw_analytics_transformation>>,
     query_template |-> PlainTemplate] >>

\* config.INTENT_THRESHOLDS as shipped
DefaultThresholds == [high |-> 60, medium |-> 30, low |-> 0]

\* a config.py edited so that two enabled groups outweigh 100
OverweightSignals == <<
    [name |-> hiring_signals, enabled |-> TRUE, weight |-> 70,
     keywords |-> <<kw_data_engineer, kw_dbt>>,
     query_template |-> HiringTemplate],
    [name |-> pain_point_signals, enabled |-> TRUE, weight |-> 60,
     keywords |-> <<kw_slow_reporting, kw_data_quality_issues>>,
     query_template |-> PlainTemplate] >>

\* a config.py edited so that one group is disabled and one weighs nothing
PartlyDisabledSignals == <<
    [name |-> strategic_signals, enabled |-> TRUE, weight |-> 0,
     keywords |-> <<kw_data_strategy>>,
     query_template |-> PlainTemplate],
    [name |-> tech_stack_signals, enabled |-> FALSE, weight |-> 25,
     keywords |-> <<kw_Snowflake, kw_modern_data_stack>>,
     query_template |-> UsesTemplate],
    [name |-> hiring_signals, enabled |-> TRUE, weight |-> 40,
     keywords |-> <<kw_machine_learning_engineer, kw_data_engineer>>,
     query_template |-> HiringTemplate] >>

framework_adoption == <<"f", "r", "a", "m", "e", "w", "o", "r", "k", "_", "a", "d", "o", "p", "t", "i", "o", "n">>

api_performance == <<"a", "p", "i", "_", "p", "e", "r", "f", "o", "r", "m", "a", "n", "c", "e">>

infrastructure_signals == <<
    "i", "n", "f", "r", "a", "s", "t", "r", "u", "c", "t", "u", "r", "e", "_", "s", "i", "g",
    "n", "a", "l", "s">>

developer_hiring == <<"d", "e", "v", "e", "l", "o", "p", "e", "r", "_", "h", "i", "r", "i", "n", "g">>

\* example_configs/devtools_config.py, a drop-in replacement for config.py
DevtoolsSignals == <<
    [name |-> framework_adoption, enabled |-> TRUE, weight |-> 25,
     keywords |-> <<<<"N", "e", "x", "t", ".", "j", "s">>, <<"R", "e", "a", "c", "t">>, <<"T", "y", "p", "e", "S", "c", "r", "i", "p", "t">>, <<"V", "u", "e", ".", "j", "s">>, <<"m", "o", "d", "e", "r", "n", " ", "f", "r", "o", "n", "t", "e", "n", "d">>>>,
     query_template |-> UsingTemplate],
    [name |-> api_performance, enabled |-> TRUE, weight |-> 30,
     keywords |-> <<<<"A", "P", "I", " ", "s", "c", "a", "l", "i", "n", "g">>, <<
         "A", "P", "I", " ", "p", "e", "r", "f", "o", "r", "m", "a", "n", "c", "e", " ", "i", "s",
         "s", "u", "e", "s">>, <<"s", "l", "o", "w", " ", "A", "P", "I", " ", "r", "e", "s", "p", "o", "n", "s", "e">>,
                    <<"r", "a", "t", "e", " ", "l", "i", "m", "i", "t", "i", "n", "g">>, <<"A", "P", "I", " ", "d", "o", "w", "n", "t", "i", "m", "e">>>>,
     query_template |-> PlainTemplate],
    [name |-> infrastructure_signals, enabled |-> TRUE, weight |-> 20,
     keywords |-> <<<<"K", "u", "b", "e", "r", "n", "e", "t", "e", "s">>, <<"D", "o", "c", "k", "e", "r">>, <<"m", "i", "c", "r", "o", "s", "e", "r", "v", "i", "c", "e", "s">>,
                    <<
                        "i", "n", "f", "r", "a", "s", "t", "r", "u", "c", "t", "u", "r", "e", " ", "m", "i", "g",
                        "r", "a", "t", "i", "o", "n">>, <<"c", "l", "o", "u", "d", " ", "n", "a", "t", "i", "v", "e">>>>,
     query_template |-> PlainTemplate],
    [name |-> developer_hiring, enabled |-> TRUE, weight |-> 25,
     keywords |-> <<<<"D", "e", "v", "O", "p", "s", " ", "e", "n", "g", "i", "n", "e", "e", "r">>, <<"B", "a", "c", "k", "e", "n", "d", " ", "e", "n", "g", "i", "n", "e", "e", "r">>, <<
         "I", "n", "f", "r", "a", "s", "t", "r", "u", "c", "t", "u", "r", "e", " ", "e", "n", "g",
         "i", "n", "e", "e", "r">>,
                    <<"S", "R", "E">>, <<"P", "l", "a", "t", "f", "o", "r", "m", " ", "e", "n", "g", "i", "n", "e", "e", "r">>>>,
     query_template |-> HiringTemplate] >>

\* a config.py edited so that a keyword is listed twice in a group and again in
\* another group with the same template: three of the four queries are the same
RepeatedKeywordSignals == <<
    [name |-> hiring_signals, enabled |-> TRUE, weight |-> 50,
     keywords |-> <<kw_Snowflake, kw_dbt, kw_Snowflake>>,
     query_template |-> PlainTemplate],
    [name |-> tech_stack_signals, enabled |-> TRUE, weight |-> 50,
     keywords |-> <<kw_Snowflake>>,
     query_template |-> PlainTemplate] >>

\* a config.py edited so that one weight is negative
NegativeWeightSignals == <<
    [name |-> hiring_signals, enabled |-> TRUE, weight |-> 80,
     keywords |-> <<kw_data_engineer>>,
     query_template |-> HiringTemplate],
    [name |-> pain_point_signals, enabled |-> TRUE, weight |-> -30,
     keywords |-> <<kw_slow_reporting>>,
     query_template |-> PlainTemplate] >>

\* the CUSTOM_SIGNALS a process can start with
BaselineConfigs == {DefaultSignals, OverweightSignals, PartlyDisabledSignals,
                    DevtoolsSignals, RepeatedKeywordSignals}

(***************************************************************************)
(* serp_client.py: the gateway                                             *)
(***************************************************************************)
\* What one POST to the SERP API comes back with.  outcome is one of
\*   "ok"              status 2xx and a body that parses as JSON (body)
\*   "timeout"         requests.post raises Timeout
\*   "transport_error" requests.post raises ConnectionError
\*   "bad_status"      raise_for_status raises HTTPError
\*   "non_json"        response.json() raises a decoding error
NetOk(body) == [outcome |-> "ok", body |-> body]

NetFail(outcome) == [outcome |-> outcome, body |-> JNull]

NetFailures == {"timeout", "transport_error", "bad_status", "non_json"}

\* a call that returns value / a call that raises exception
Returns(value) == [raised |-> "none", value |-> value]

Raises(exception) == [raised |-> exception, value |-> <<>>]

str_results == <<"r", "e", "s", "u", "l", "t", "s">>

MinDescriptionLength == 60

MaxDescriptionLength == 600

SnippetLength == 150

\* SerpClient.query: every exception of the try block is turned into
\* {"results": []}; a parsed body is returned as it is
SerpQuery(net) ==
    IF net.outcome = "ok" THEN net.body ELSE JDict([results |-> JList(<<>>)])

\* "results" in response, for a dict, a list or a str
HasResultsKey(response) ==
    CASE response.t = "dict" -> "results" \in DOMAIN response.v
      [] response.t = "list" ->
            \E i \in 1..Len(response.v) :
                response.v[i].t = "str" /\ response.v[i].v = str_results
      [] response.t = "str"  -> StrContains(response.v, str_results)

\* description[:150] + "..." if len(description) > 150 else description
MakeSnippet(description) ==
    IF Len(description) > SnippetLength
    THEN Prefix(description, SnippetLength) \o <<".", ".", ".">>
    ELSE description

\* the loop of search_for_signals without the break of lines 166-167
RECURSIVE FormatResultsNoBreak(_, _, _)
FormatResultsNoBreak(results, result_count, formatted_results) ==
    IF results = <<>> THEN Returns(formatted_results)
    ELSE LET result == Head(results) IN
         IF result.t # "dict" THEN Raises("AttributeError")
         ELSE LET title == DictGet(result, "title", JStr(<<>>))
                  url == DictGet(result, "url", JStr(<<>>))
                  description == DictGet(result, "description", JStr(<<>>))
              IN  IF description.t # "str" THEN Raises("TypeError")
                  ELSE FormatResultsNoBreak(Tail(results), result_count,
                           IF /\ MinDescriptionLength <= Len(description.v)
                              /\ Len(description.v) <= MaxDescriptionLength
                           THEN Append(formatted_results,
                                       [title |-> title,
                                        url |-> url,
                                        description |-> description.v,
                                        snippet |-> MakeSnippet(description.v)])
                           ELSE formatted_results)

\* The loop of search_for_signals over a list of raw results.  A description is
\* a str, null or a number here (len() of null or of a number is a TypeError).
RECURSIVE FormatResults(_, _, _)
FormatResults(results, result_count, formatted_results) ==
    IF results = <<>> THEN Returns(formatted_results)
    ELSE LET result == Head(results) IN
         IF result.t # "dict" THEN Raises("AttributeError")
         ELSE LET title == DictGet(result, "title", JStr(<<>>))
                  url == DictGet(result, "url", JStr(<<>>))
                  description == DictGet(result, "description", JStr(<<>>))
              IN  IF description.t # "str" THEN Raises("TypeError")
                  ELSE LET keep == /\ MinDescriptionLength <= Len(description.v)
                                   /\ Len(description.v) <= MaxDescriptionLength
                           added == IF keep
                                    THEN Append(formatted_results,
                                                [title |-> title,
                                                 url |-> url,
                                                 description |-> description.v,
                                                 snippet |-> MakeSnippet(description.v)])
                                    ELSE formatted_results
                       IN  IF Len(added) >= result_count THEN Returns(added)
                           ELSE FormatResults(Tail(results), result_count, added)

\* SerpClient.search_for_signals, given what the network did for this query
SearchForSignals(net, result_count) ==
    LET response == SerpQuery(net) IN
    IF ~Truthy(response) THEN Returns(<<>>)
    ELSE IF response.t = "num" THEN Raises("TypeError")
    ELSE IF ~HasResultsKey(response) THEN Returns(<<>>)
    ELSE IF response.t # "dict" THEN Raises("AttributeError")
    ELSE LET results == DictGet(response, "results", JList(<<>>)) IN
         IF ~Truthy(results) THEN Returns(<<>>)
         ELSE CASE results.t = "num"  -> Raises("TypeError")
                [] results.t = "str"  -> Raises("AttributeError")
                [] results.t = "dict" -> Raises("AttributeError")
                [] results.t = "list" -> FormatResults(results.v, result_count, <<>>)

(***************************************************************************)
(* test_with_mock.py: MockSerpClient                                       *)
(***************************************************************************)
MockResult1 == JDict([
    title |-> JStr(<<
        "S", "n", "o", "w", "f", "l", "a", "k", "e", " ", "i", "s", " ", "h", "i", "r", "i", "n",
        "g", " ", "D", "a", "t", "a", " ", "E", "n", "g", "i", "n", "e", "e", "r", "s">>),
    url |-> JStr(<<
        "h", "t", "t", "p", "s", ":", "/", "/", "c", "a", "r", "e", "e", "r", "s", ".", "s", "n",
        "o", "w", "f", "l", "a", "k", "e", ".", "c", "o", "m", "/", "j", "o", "b", "s", "/", "d",
        "a", "t", "a", "-", "e", "n", "g", "i", "n", "e", "e", "r">>),
    description |-> JStr(<<
        "J", "o", "i", "n", " ", "o", "u", "r", " ", "g", "r", "o", "w", "i", "n", "g", " ", "t",
        "e", "a", "m", " ", "a", "s", " ", "a", " ", "D", "a", "t", "a", " ", "E", "n", "g", "i",
        "n", "e", "e", "r", ".", " ", "W", "e", "'", "r", "e", " ", "l", "o", "o", "k", "i", "n",
        "g", " ", "f", "o", "r", " ", "t", "a", "l", "e", "n", "t", "e", "d", " ", "i", "n", "d",
        "i", "v", "i", "d", "u", "a", "l", "s", " ", "w", "i", "t", "h", " ", "e", "x", "p", "e",
        "r", "i", "e", "n", "c", "e", " ", "i", "n", " ", "S", "n", "o", "w", "f", "l", "a", "k",
        "e", ",", " ", "d", "b", "t", ",", " ", "a", "n", "d", " ", "m", "o", "d", "e", "r", "n",
        " ", "d", "a", "t", "a", " ", "s", "t", "a", "c", "k", " ", "t", "e", "c", "h", "n", "o",
        "l", "o", "g", "i", "e", "s", ".", " ", "T", "h", "i", "s", " ", "i", "s", " ", "a", "n",
        " ", "e", "x", "c", "i", "t", "i", "n", "g", " ", "o", "p", "p", "o", "r", "t", "u", "n",
        "i", "t", "y", " ", "t", "o", " ", "w", "o", "r", "k", " ", "o", "n", " ", "c", "u", "t",
        "t", "i", "n", "g", "-", "e", "d", "g", "e", " ", "d", "a", "t", "a", " ", "i", "n", "f",
        "r", "a", "s", "t", "r", "u", "c", "t", "u", "r", "e", ".">>)])

MockResult2 == JDict([
    title |-> JStr(<<
        "C", "u", "s", "t", "o", "m", "e", "r", " ", "R", "e", "v", "i", "e", "w", ":", " ", "D",
        "a", "t", "a", " ", "Q", "u", "a", "l", "i", "t", "y", " ", "I", "s", "s", "u", "e", "s",
        " ", "a", "t", " ", "S", "c", "a", "l", "e">>),
    url |-> JStr(<<
        "h", "t", "t", "p", "s", ":", "/", "/", "g", "2", ".", "c", "o", "m", "/", "p", "r", "o",
        "d", "u", "c", "t", "s", "/", "s", "n", "o", "w", "f", "l", "a", "k", "e", "/", "r", "e",
        "v", "i", "e", "w", "s">>),
    description |-> JStr(<<
        "W", "h", "i", "l", "e", " ", "S", "n", "o", "w", "f", "l", "a", "k", "e", " ", "i", "s",
        " ", "p", "o", "w", "e", "r", "f", "u", "l", ",", " ", "w", "e", "'", "v", "e", " ", "e",
        "x", "p", "e", "r", "i", "e", "n", "c", "e", "d", " ", "s", "o", "m", "e", " ", "d", "a",
        "t", "a", " ", "q", "u", "a", "l", "i", "t", "y", " ", "i", "s", "s", "u", "e", "s", " ",
        "w", "h", "e", "n", " ", "s", "c", "a", "l", "i", "n", "g", " ", "t", "o", " ", "l", "a",
        "r", "g", "e", " ", "d", "a", "t", "a", "s", "e", "t", "s", ".", " ", "M", "a", "n", "u",
        "a", "l", " ", "d", "a", "t", "a", " ", "p", "r", "o", "c", "e", "s", "s", "e", "s", " ",
        "a", "r", "e", " ", "s", "t", "i", "l", "l", " ", "r", "e", "q", "u", "i", "r", "e", "d",
        " ", "f", "o", "r", " ", "c", "e", "r", "t", "a", "i", "n", " ", "w", "o", "r", "k", "f",
        "l", "o", "w", "s", ",", " ", "w", "h", "i", "c", "h", " ", "s", "l", "o", "w", "s", " ",
        "d", "o", "w", "n", " ", "o", "u", "r", " ", "r", "e", "p", "o", "r", "t", "i", "n", "g",
        " ", "c", "a", "p", "a", "b", "i", "l", "i", "t", "i", "e", "s", ".">>)])

MockResult3 == JDict([
    title |-> JStr(<<
        "S", "n", "o", "w", "f", "l", "a", "k", "e", " ", "B", "l", "o", "g", ":", " ", "O", "u",
        "r", " ", "D", "a", "t", "a", " ", "S", "t", "r", "a", "t", "e", "g", "y", " ", "f", "o",
        "r", " ", "2", "0", "2", "6">>),
    url |-> JStr(<<
        "h", "t", "t", "p", "s", ":", "/", "/", "s", "n", "o", "w", "f", "l", "a", "k", "e", ".",
        "c", "o", "m", "/", "b", "l", "o", "g", "/", "d", "a", "t", "a", "-", "s", "t", "r", "a",
        "t", "e", "g", "y", "-", "2", "0", "2", "6">>),
    description |-> JStr(<<
        "W", "e", "'", "r", "e", " ", "i", "n", "v", "e", "s", "t", "i", "n", "g", " ", "h", "e",
        "a", "v", "i", "l", "y", " ", "i", "n", " ", "a", "n", "a", "l", "y", "t", "i", "c", "s",
        " ", "t", "r", "a", "n", "s", "f", "o", "r", "m", "a", "t", "i", "o", "n", " ", "a", "n",
        "d", " ", "m", "o", "d", "e", "r", "n", " ", "d", "a", "t", "a", " ", "s", "t", "a", "c",
        "k", " ", "t", "e", "c", "h", "n", "o", "l", "o", "g", "i", "e", "s", ".", " ", "O", "u",
        "r", " ", "g", "o", "a", "l", " ", "i", "s", " ", "t", "o", " ", "b", "e", "c", "o", "m",
        "e", " ", "t", "h", "e", " ", "l", "e", "a", "d", "i", "n", "g", " ", "c", "l", "o", "u",
        "d", " ", "d", "a", "t", "a", " ", "p", "l", "a", "t", "f", "o", "r", "m", " ", "b", "y",
        " ", "f", "o", "c", "u", "s", "i", "n", "g", " ", "o", "n", " ", "d", "a", "t", "a", " ",
        "s", "t", "r", "a", "t", "e", "g", "y", " ", "a", "n", "d", " ", "c", "u", "s", "t", "o",
        "m", "e", "r", " ", "s", "u", "c", "c", "e", "s", "s", ".">>)])

\* MockSerpClient.query
MockQuery == JDict([results |-> JList(<<MockResult1, MockResult2, MockResult3>>)])

\* the body of the loop of MockSerpClient.search_for_signals (lines 41-50)
MockFormatResults(results) ==
    LET InRange(result) ==
            /\ MinDescriptionLength <= Len(DictGet(result, "description", JStr(<<>>)).v)
            /\ Len(DictGet(result, "description", JStr(<<>>)).v) <= MaxDescriptionLength
        Format(result) ==
            [title |-> DictGet(result, "title", JStr(<<>>)),
             url |-> DictGet(result, "url", JStr(<<>>)),
             description |-> DictGet(result, "description", JStr(<<>>)).v,
             snippet |-> MakeSnippet(DictGet(result, "description", JStr(<<>>)).v)]
        Formatted(kept) == [i \in 1..Len(kept) |-> Format(kept[i])]
    IN  Returns(Formatted(SelectSeq(results, InRange)))

\* MockSerpClient.search_for_signals: the first result_count results, then the
\* length filter
MockSearchForSignals(result_count) ==
    MockFormatResults(Prefix(DictGet(MockQuery, "results", JList(<<>>)).v, result_count))

(***************************************************************************)
(* The network behind SerpClient                                           *)
(***************************************************************************)
\* The network as a function of the query: the answer of the first rule that
\* lists the query, and `otherwise` for a query no rule lists.
NetAnswer(gateway, query) ==
    IF \E r \in 1..Len(gateway.rules) : query \in gateway.rules[r].queries
    THEN gateway.rules[CHOOSE r \in 1..Len(gateway.rules) :
             /\ query \in gateway.rules[r].queries
             /\ \A q \in 1..(r - 1) : query \notin gateway.rules[q].queries].answer
    ELSE gateway.otherwise

(***************************************************************************)
(* signal_tracker.py: SignalTracker                                        *)
(***************************************************************************)
ResultCount == 3

\* The company name track_signals derives from the domain (lines 64-65)
DeriveCompanyName(domain) ==
    LET stripped == StrReplace(StrReplace(StrReplace(domain,
                        <<".", "c", "o", "m">>, <<>>), <<".", "i", "o">>, <<>>), <<".", "n", "e", "t">>, <<>>)
    IN  Title(StrReplace(StrReplace(stripped, <<"-">>, <<" ">>), <<"_">>, <<" ">>))

\* The name track_signals works with: the argument unless it is None or ""
EffectiveCompanyName(domain, company_name) ==
    IF Truthy(company_name) THEN company_name.v ELSE DeriveCompanyName(domain)

\* query_template.format(company_name=..., domain=..., keyword=...)
RECURSIVE FormatQuery(_, _, _, _)
FormatQuery(query_template, company_name, domain, keyword) ==
    IF query_template = <<>> THEN <<>>
    ELSE LET piece == Head(query_template)
             text == CASE piece.ph = "" -> piece.lit
                       [] piece.ph = "company_name" -> company_name
                       [] piece.ph = "domain" -> domain
                       [] piece.ph = "keyword" -> keyword
         IN  text \o FormatQuery(Tail(query_template), company_name, domain, keyword)

\* the keyword loop left at the first keyword that occurs
MatchedKeywordsFirstOnly(keywords, title, description) ==
    LET hits == SelectSeq(keywords, LAMBDA keyword :
                    \/ StrContains(title, ToLower(keyword))
                    \/ StrContains(description, ToLower(keyword)))
    IN  IF hits = <<>> THEN <<>> ELSE <<hits[1]>>

\* the keywords of the list that occur in the lower-cased title or description,
\* in the order of the list
RECURSIVE MatchedKeywords(_, _, _)
MatchedKeywords(keywords, title, description) ==
    IF keywords = <<>> THEN <<>>
    ELSE LET keyword_lower == ToLower(Head(keywords))
             rest == MatchedKeywords(Tail(keywords), title, description)
         IN  IF StrContains(title, keyword_lower) \/ StrContains(description, keyword_lower)
             THEN <<Head(keywords)>> \o rest
             ELSE rest

\* lines 176-190 with signal_detected = True set for every result looked at
AddEvidenceAnyResult(acc, result, matched_keywords) ==
    [detected |-> TRUE,
     evidence |->
         IF matched_keywords # <<>>
         THEN Append(acc.evidence,
                     [source |-> result.title.v,
                      url |-> result.url,
                      matched_keywords |-> matched_keywords,
                      snippet |-> result.snippet])
         ELSE acc.evidence]

\* lines 184-190: the evidence entry of a result with matched keywords
AddEvidence(acc, result, matched_keywords) ==
    [detected |-> acc.detected \/ matched_keywords # <<>>,
     evidence |->
         IF matched_keywords # <<>>
         THEN Append(acc.evidence,
                     [source |-> result.title.v,
                      url |-> result.url,
                      matched_keywords |-> matched_keywords,
                      snippet |-> result.snippet])
         ELSE acc.evidence]

\* The loop of _analyze_signal over the results (lines 171-190); str.lower() of
\* a title that is not a str is an AttributeError
RECURSIVE AnalyzeResults(_, _, _)
AnalyzeResults(results, keywords, acc) ==
    IF results = <<>> THEN Returns(acc)
    ELSE IF Head(results).title.t # "str" THEN Raises("AttributeError")
    ELSE AnalyzeResults(Tail(results), keywords,
             AddEvidence(acc, Head(results),
                 MatchedKeywords(keywords, ToLower(Head(results).title.v),
                                 ToLower(Head(results).description))))

\* SignalTracker._analyze_signal
AnalyzeSignal(results, keywords) ==
    IF results = <<>>
    THEN Returns([detected |-> FALSE, evidence |-> <<>>])
    ELSE AnalyzeResults(results, keywords, [detected |-> FALSE, evidence |-> <<>>])

\* _calculate_intent with the medium comparison made before the high one
CalculateIntentMediumFirst(score, th) ==
    IF score >= th.medium THEN "Medium"
    ELSE IF score >= th.high THEN "High"
    ELSE "Low"

\* _calculate_intent with > written for >= in both comparisons
CalculateIntentExclusive(score, th) ==
    IF score > th.high THEN "High"
    ELSE IF score > th.medium THEN "Medium"
    ELSE "Low"

\* SignalTracker._calculate_intent
CalculateIntent(score, th) ==
    IF score >= th.high THEN "High"
    ELSE IF score >= th.medium THEN "Medium"
    ELSE "Low"

\* signal_type.replace('_', ' ').title()
SignalLabel(signal_type) == Title(StrReplace(signal_type, <<"_">>, <<" ">>))

\* _get_recommendation with every detected label joined (top_signals for
\* top_signals[:2]) and every stored group counted
GetRecommendationUncut(intent_level, signals) ==
    IF intent_level = "High"
    THEN LET detected == SelectSeq(signals, LAMBDA s : s.detected)
             top_signals == [i \in 1..Len(detected) |-> SignalLabel(detected[i].name)]
         IN  IF top_signals # <<>>
             THEN [template |-> "high_lead_with", lead_with |-> top_signals,
                   detected_count |-> 0]
             ELSE [template |-> "high_generic", lead_with |-> <<>>, detected_count |-> 0]
    ELSE IF intent_level = "Medium"
    THEN [template |-> "medium", lead_with |-> <<>>, detected_count |-> Len(signals)]
    ELSE [template |-> "low", lead_with |-> <<>>, detected_count |-> 0]

\* SignalTracker._get_recommendation; the text is kept as the template chosen
\* and the values formatted into it
GetRecommendation(intent_level, signals) ==
    IF intent_level = "High"
    THEN LET detected == SelectSeq(signals, LAMBDA s : s.detected)
             top_signals == [i \in 1..Len(detected) |-> SignalLabel(detected[i].name)]
         IN  IF top_signals # <<>>
             THEN [template |-> "high_lead_with",
                   lead_with |-> SubSeq(top_signals, 1,
                                        IF Len(top_signals) < 2 THEN Len(top_signals) ELSE 2),
                   detected_count |-> 0]
             ELSE [template |-> "high_generic", lead_with |-> <<>>, detected_count |-> 0]
    ELSE IF intent_level = "Medium"
    THEN [template |-> "medium", lead_with |-> <<>>,
          detected_count |-> Len(SelectSeq(signals, LAMBDA s : s.detected))]
    ELSE [template |-> "low", lead_with |-> <<>>, detected_count |-> 0]

\* self.serp.search_for_signals(query, result_count=3) on the client the tracker
\* holds
CallSerp(gateway, query) ==
    IF gateway.client = "MockSerpClient"
    THEN MockSearchForSignals(ResultCount)
    ELSE SearchForSignals(NetAnswer(gateway, query), ResultCount)

RECURSIVE TrackKeywords(_, _, _, _, _, _)

\* lines 111-113 with a result left out when the group already has evidence
\* from the same url
KeywordAnalysedOncePerUrl(keywords, signal_config, company_name, domain, gateway, acc, analysis) ==
    IF analysis.raised # "none" THEN [acc EXCEPT !.raised = analysis.raised]
    ELSE TrackKeywords(Tail(keywords), signal_config, company_name, domain, gateway,
             [acc EXCEPT
                 !.signal_detected = IF analysis.value.detected THEN TRUE ELSE @,
                 !.all_evidence =
                     IF analysis.value.detected
                     THEN @ \o SelectSeq(analysis.value.evidence, LAMBDA entry :
                                   \A e \in 1..Len(acc.all_evidence) :
                                       acc.all_evidence[e].url # entry.url)
                     ELSE @])

\* lines 111-113: the evidence of the keyword joins that of the group
KeywordAnalysed(keywords, signal_config, company_name, domain, gateway, acc, analysis) ==
    IF analysis.raised # "none" THEN [acc EXCEPT !.raised = analysis.raised]
    ELSE TrackKeywords(Tail(keywords), signal_config, company_name, domain, gateway,
             [acc EXCEPT
                 !.signal_detected = IF analysis.value.detected THEN TRUE ELSE @,
                 !.all_evidence = IF analysis.value.detected
                                  THEN @ \o analysis.value.evidence ELSE @])

\* line 109: the results of the query are analysed for the one keyword
KeywordSearched(keywords, signal_config, company_name, domain, gateway, acc, results) ==
    IF results.raised # "none" THEN [acc EXCEPT !.raised = results.raised]
    ELSE KeywordAnalysed(keywords, signal_config, company_name, domain, gateway, acc,
             AnalyzeSignal(results.value, <<Head(keywords)>>))

\* lines 99-106 with a query sent earlier in the run not sent again
KeywordQueriedOnce(keywords, signal_config, company_name, domain, gateway, acc, query) ==
    IF \E c \in 1..Len(acc.calls) : acc.calls[c] = query
    THEN TrackKeywords(Tail(keywords), signal_config, company_name, domain, gateway, acc)
    ELSE KeywordSearched(keywords, signal_config, company_name, domain, gateway,
             [acc EXCEPT !.calls = Append(@, query)], CallSerp(gateway, query))

\* lines 99-106: the query of the keyword is built and sent
KeywordQueried(keywords, signal_config, company_name, domain, gateway, acc, query) ==
    KeywordSearched(keywords, signal_config, company_name, domain, gateway,
        [acc EXCEPT !.calls = Append(@, query)], CallSerp(gateway, query))

\* The loop of track_signals over the keywords of one group (lines 96-113)
TrackKeywords(keywords, signal_config, company_name, domain, gateway, acc) ==
    IF keywords = <<>> THEN acc
    ELSE KeywordQueried(keywords, signal_config, company_name, domain, gateway, acc,
             FormatQuery(signal_config.query_template, company_name, domain,
                         Head(keywords)))

RECURSIVE TrackGroups(_, _, _, _, _)

\* lines 116-123 with the weight added for every group looked at, detected or
\* not
GroupTrackedScoreAlways(groups, company_name, domain, gateway, acc, group) ==
    IF group.raised # "none"
    THEN [acc EXCEPT !.raised = group.raised, !.calls = group.calls]
    ELSE TrackGroups(Tail(groups), company_name, domain, gateway,
             [acc EXCEPT
                 !.calls = group.calls,
                 !.total_score = @ + Head(groups).weight,
                 !.detected_signals =
                     Append(@, [name |-> Head(groups).name,
                                detected |-> group.signal_detected,
                                weight |-> Head(groups).weight,
                                evidence |-> group.all_evidence])])

\* lines 116-123 with total_score = weight written for total_score += weight
GroupTrackedScoreOverwritten(groups, company_name, domain, gateway, acc, group) ==
    IF group.raised # "none"
    THEN [acc EXCEPT !.raised = group.raised, !.calls = group.calls]
    ELSE TrackGroups(Tail(groups), company_name, domain, gateway,
             [acc EXCEPT
                 !.calls = group.calls,
                 !.total_score = IF group.signal_detected
                                 THEN Head(groups).weight ELSE @,
                 !.detected_signals =
                     Append(@, [name |-> Head(groups).name,
                                detected |-> group.signal_detected,
                                weight |-> Head(groups).weight,
                                evidence |-> group.all_evidence])])

\* lines 116-123 with the total held at 100
GroupTrackedScoreCapped(groups, company_name, domain, gateway, acc, group) ==
    IF group.raised # "none"
    THEN [acc EXCEPT !.raised = group.raised, !.calls = group.calls]
    ELSE TrackGroups(Tail(groups), company_name, domain, gateway,
             [acc EXCEPT
                 !.calls = group.calls,
                 !.total_score = IF group.signal_detected
                                 THEN (IF @ + Head(groups).weight > 100 THEN 100
                                       ELSE @ + Head(groups).weight)
                                 ELSE @,
                 !.detected_signals =
                     Append(@, [name |-> Head(groups).name,
                                detected |-> group.signal_detected,
                                weight |-> Head(groups).weight,
                                evidence |-> group.all_evidence])])

\* lines 116-123: the group is scored and stored
GroupTracked(groups, company_name, domain, gateway, acc, group) ==
    IF group.raised # "none"
    THEN [acc EXCEPT !.raised = group.raised, !.calls = group.calls]
    ELSE TrackGroups(Tail(groups), company_name, domain, gateway,
             [acc EXCEPT
                 !.calls = group.calls,
                 !.total_score = IF group.signal_detected
                                 THEN @ + Head(groups).weight ELSE @,
                 !.detected_signals =
                     Append(@, [name |-> Head(groups).name,
                                detected |-> group.signal_detected,
                                weight |-> Head(groups).weight,
                                evidence |-> group.all_evidence])])

\* the loop over the groups without the test of 'enabled' (lines 76-77)
TrackGroupsIgnoringEnabled(groups, company_name, domain, gateway, acc) ==
    IF groups = <<>> THEN acc
    ELSE GroupTracked(groups, company_name, domain, gateway, acc,
             TrackKeywords(Head(groups).keywords, Head(groups), company_name, domain,
                 gateway,
                 [raised |-> "none", calls |-> acc.calls,
                  signal_detected |-> FALSE, all_evidence |-> <<>>]))

\* The loop of track_signals over the groups (lines 74-123)
TrackGroups(groups, company_name, domain, gateway, acc) ==
    IF groups = <<>> THEN acc
    ELSE IF ~Head(groups).enabled
    THEN TrackGroups(Tail(groups), company_name, domain, gateway, acc)
    ELSE GroupTracked(groups, company_name, domain, gateway, acc,
             TrackKeywords(Head(groups).keywords, Head(groups), company_name, domain,
                 gateway,
                 [raised |-> "none", calls |-> acc.calls,
                  signal_detected |-> FALSE, all_evidence |-> <<>>]))

\* lines 126-142: the report of a run that did not raise; intent_level is the
\* value of _calculate_intent(total_score)
Report(company_name, domain, run, intent_level) ==
    [company_name |-> company_name,
     domain |-> domain,
     total_score |-> run.total_score,
     intent_level |-> intent_level,
     signals |-> run.detected_signals,
     recommendation |-> GetRecommendation(intent_level, run.detected_signals)]

\* what track_signals hands back once the loop has run or raised
Tracked(company_name, domain, th, run) ==
    IF run.raised # "none"
    THEN [raised |-> run.raised, calls |-> run.calls, value |-> <<>>]
    ELSE [raised |-> "none", calls |-> run.calls,
          value |-> Report(company_name, domain, run,
                           CalculateIntent(run.total_score, th))]

\* lines 69-123 for the company name in use
TrackNamed(domain, company_name, config, th, gateway) ==
    Tracked(company_name, domain, th,
        TrackGroups(config, company_name, domain, gateway,
            [raised |-> "none", calls |-> <<>>, total_score |-> 0,
             detected_signals |-> <<>>]))

\* SignalTracker.track_signals: the report, or the exception that escapes; calls
\* lists the queries sent to the gateway
TrackSignals(domain, company_name, config, th, gateway) ==
    TrackNamed(domain, EffectiveCompanyName(domain, company_name), config, th, gateway)

(***************************************************************************)
(* enrichment_engine.py: CustomEnrichmentEngine                            *)
(***************************************************************************)
\* signals.get(name, {}): the entry of the group, or an empty dict
HasSignal(signals, name) == \E i \in 1..Len(signals) : signals[i].name = name

SignalOf(signals, name) == signals[CHOOSE i \in 1..Len(signals) : signals[i].name = name]

\* A starter is kept as the sentence template chosen and the value formatted
\* into it.
Starter(template, arg) == [template |-> template, arg |-> arg]

\* a keyword block that reads evidence[-1] where the method reads evidence[0]
KeywordStarterLastEvidence(signals, name, template) ==
    IF HasSignal(signals, name) /\ SignalOf(signals, name).detected
    THEN LET evidence == SignalOf(signals, name).evidence IN
         IF evidence # <<>> /\ evidence[Len(evidence)].matched_keywords # <<>>
         THEN <<Starter(template, evidence[Len(evidence)].matched_keywords[1])>>
         ELSE <<>>
    ELSE <<>>

\* One of the three keyword blocks of _generate_conversation_starters (lines
\* 116-125, 128-136, 139-147): the starter for the group, if it yields one
KeywordStarter(signals, name, template) ==
    IF HasSignal(signals, name) /\ SignalOf(signals, name).detected
    THEN LET evidence == SignalOf(signals, name).evidence IN
         IF evidence # <<>> /\ evidence[1].matched_keywords # <<>>
         THEN <<Starter(template, evidence[1].matched_keywords[1])>>
         ELSE <<>>
    ELSE <<>>

\* The strategic block (lines 150-156): the title of the first evidence entry
SourceStarter(signals, name, template) ==
    IF HasSignal(signals, name) /\ SignalOf(signals, name).detected
    THEN LET evidence == SignalOf(signals, name).evidence IN
         IF evidence # <<>> THEN <<Starter(template, evidence[1].source)>> ELSE <<>>
    ELSE <<>>

\* the blocks with the pain point block moved ahead of the tech stack block
SignalStartersPainPointSecond(signals) ==
    KeywordStarter(signals, hiring_signals, "hiring")
        \o KeywordStarter(signals, pain_point_signals, "pain_point")
        \o KeywordStarter(signals, tech_stack_signals, "tech_stack")
        \o SourceStarter(signals, strategic_signals, "strategic")

\* The blocks in the order the method runs them
SignalStarters(signals) ==
    KeywordStarter(signals, hiring_signals, "hiring")
        \o KeywordStarter(signals, tech_stack_signals, "tech_stack")
        \o KeywordStarter(signals, pain_point_signals, "pain_point")
        \o SourceStarter(signals, strategic_signals, "strategic")

\* The fallback (lines 159-166)
GenericStarters(company_name) ==
    <<Starter("generic_data_strategy", company_name),
      Starter("generic_collaboration", <<>>),
      Starter("generic_growth", company_name)>>

MaxStarters == 3

\* the return without the slice
FirstStartersUncut(starters) == starters

\* starters[:3]
FirstStarters(starters) ==
    SubSeq(starters, 1, IF Len(starters) < MaxStarters THEN Len(starters) ELSE MaxStarters)

\* lines 159-169 with the generic starters added after those of the blocks
ChooseStartersFallbackAdded(starters, company_name) ==
    FirstStarters(starters \o GenericStarters(company_name))

\* lines 159-169 without the fallback
ChooseStartersNoFallback(starters, company_name) == FirstStarters(starters)

\* lines 159-169: the fallback when no block produced a starter, then the cut
ChooseStarters(starters, company_name) ==
    FirstStarters(IF starters = <<>> THEN GenericStarters(company_name) ELSE starters)

\* CustomEnrichmentEngine._generate_conversation_starters
GenerateConversationStarters(signal_results) ==
    ChooseStarters(SignalStarters(signal_results.signals), signal_results.company_name)

\* lines 77-89 with standard_data left empty
ProfileWithoutExistingData(signal_results, conversation_starters, existing_data) ==
    [domain |-> signal_results.domain,
     company_name |-> signal_results.company_name,
     custom_signals |->
         [total_score |-> signal_results.total_score,
          intent_level |-> signal_results.intent_level,
          detected_signals |-> signal_results.signals,
          recommendation |-> signal_results.recommendation],
     conversation_starters |-> conversation_starters,
     standard_data |-> JDict(EmptyDict)]

\* lines 77-89: the profile built from the report
Profile(signal_results, conversation_starters, existing_data) ==
    [domain |-> signal_results.domain,
     company_name |-> signal_results.company_name,
     custom_signals |->
         [total_score |-> signal_results.total_score,
          intent_level |-> signal_results.intent_level,
          detected_signals |-> signal_results.signals,
          recommendation |-> signal_results.recommendation],
     conversation_starters |-> conversation_starters,
     standard_data |-> IF Truthy(existing_data) THEN existing_data ELSE JDict(EmptyDict)]

\* lines 74-91 once track_signals has returned or raised
Enriched(tracked, existing_data) ==
    IF tracked.raised # "none" THEN tracked
    ELSE [raised |-> "none", calls |-> tracked.calls,
          value |-> Profile(tracked.value,
                            GenerateConversationStarters(tracked.value),
                            existing_data)]

\* CustomEnrichmentEngine.enrich_with_custom_signals; the enrichment_date read
\* from the clock is left out of the profile
EnrichWithCustomSignals(domain, company_name, existing_data, config, th, gateway) ==
    Enriched(TrackSignals(domain, company_name, config, th, gateway), existing_data)

(***************************************************************************)
(* presets/load_preset.py: PresetLoader                                    *)
(***************************************************************************)
str_json == <<".", "j", "s", "o", "n">>

preset_devtools == <<"d", "e", "v", "t", "o", "o", "l", "s">>

preset_devtools_json == <<"d", "e", "v", "t", "o", "o", "l", "s", ".", "j", "s", "o", "n">>

preset_hrtech_json == <<"h", "r", "t", "e", "c", "h", ".", "j", "s", "o", "n">>

preset_fintech == <<"f", "i", "n", "t", "e", "c", "h">>

\* the JSON files of the presets directory: file name -> content
PresetFiles ==
    [file \in {preset_devtools_json, preset_hrtech_json} |->
        IF file = preset_devtools_json
        THEN [industry |-> <<"D", "e", "v", "e", "l", "o", "p", "e", "r", " ", "T", "o", "o", "l", "s">>, signals |-> DevtoolsSignals]
        ELSE [industry |-> <<"H", "R", " ", "T", "e", "c", "h">>, signals |-> OverweightSignals]]

\* the names a caller passes to apply_preset
PresetNames == {preset_devtools, preset_devtools_json, preset_fintech}

\* load_preset, lines 70-73: the file a preset name stands for
PresetFileName(preset_name) ==
    IF EndsWith(preset_name, str_json) THEN preset_name ELSE preset_name \o str_json

\* PresetLoader.list_available_presets: the stems of the files
ListAvailablePresets ==
    {SubSeq(file, 1, Len(file) - Len(str_json)) : file \in DOMAIN PresetFiles}

\* PresetLoader.load_preset
LoadPreset(preset_name) ==
    LET file == PresetFileName(preset_name) IN
    IF file \notin DOMAIN PresetFiles
    THEN [raised |-> "FileNotFoundError", value |-> <<>>,
          available |-> ListAvailablePresets]
    ELSE [raised |-> "none", value |-> PresetFiles[file], available |-> {}]

(***************************************************************************)
(* The inputs of a run: leads and what the network answers                 *)
(***************************************************************************)
Leads == {
    [domain |-> <<"s", "n", "o", "w", "f", "l", "a", "k", "e", ".", "c", "o", "m">>, company_name |-> JStr(<<"S", "n", "o", "w", "f", "l", "a", "k", "e">>),
     existing_data |-> JNull],
    [domain |-> <<"b", "r", "i", "g", "h", "t", "-", "d", "a", "t", "a", ".", "i", "o">>, company_name |-> JNull,
     existing_data |-> JDict([industry |-> JStr(<<"S", "a", "a", "S">>)])],
    [domain |-> <<"m", "y", ".", "c", "o", "m", "p", "a", "n", "y", ".", "c", "o", "m">>, company_name |-> JStr(<<>>),
     existing_data |-> JDict(EmptyDict)] }

\* results written for the shipped keywords: ResultShort is dropped by the length
\* filter, ResultA and ResultB pass it
ResultShort == JDict([
    title |-> JStr(<<"S", "n", "o", "w", "f", "l", "a", "k", "e", " ", "a", "n", "d", " ", "d", "b", "t">>),
    url |-> JStr(<<
        "h", "t", "t", "p", "s", ":", "/", "/", "e", "x", "a", "m", "p", "l", "e", ".", "c", "o",
        "m", "/", "s", "h", "o", "r", "t">>),
    description |-> JStr(<<
        "D", "a", "t", "a", " ", "s", "t", "r", "a", "t", "e", "g", "y", ",", " ", "s", "l", "o",
        "w", " ", "r", "e", "p", "o", "r", "t", "i", "n", "g", ",", " ", "d", "a", "t", "a", " ",
        "e", "n", "g", "i", "n", "e", "e", "r", ".">>)])

ResultA == JDict([
    title |-> JStr(<<
        "A", "c", "m", "e", " ", "h", "i", "r", "i", "n", "g", " ", "D", "a", "t", "a", " ", "E",
        "n", "g", "i", "n", "e", "e", "r">>),
    url |-> JStr(<<
        "h", "t", "t", "p", "s", ":", "/", "/", "e", "x", "a", "m", "p", "l", "e", ".", "c", "o",
        "m", "/", "a">>),
    description |-> JStr(<<
        "A", "c", "m", "e", " ", "m", "o", "v", "e", "d", " ", "t", "o", " ", "S", "n", "o", "w",
        "f", "l", "a", "k", "e", ";", " ", "s", "l", "o", "w", " ", "r", "e", "p", "o", "r", "t",
        "i", "n", "g", " ", "d", "r", "o", "v", "e", " ", "t", "h", "e", " ", "n", "e", "w", " ",
        "d", "a", "t", "a", " ", "s", "t", "r", "a", "t", "e", "g", "y", ".">>)])

ResultB == JDict([
    title |-> JStr(<<"R", "e", "v", "i", "e", "w">>),
    url |-> JStr(<<
        "h", "t", "t", "p", "s", ":", "/", "/", "e", "x", "a", "m", "p", "l", "e", ".", "c", "o",
        "m", "/", "b">>),
    description |-> JStr(<<
        "T", "e", "a", "m", "s", " ", "r", "e", "p", "o", "r", "t", " ", "d", "a", "t", "a", " ",
        "q", "u", "a", "l", "i", "t", "y", " ", "i", "s", "s", "u", "e", "s", " ", "w", "i", "t",
        "h", " ", "d", "b", "t", " ", "m", "o", "d", "e", "l", "s", " ", "a", "n", "d", " ", "a",
        " ", "m", "o", "d", "e", "r", "n", " ", "d", "a", "t", "a", " ", "s", "t", "a", "c", "k",
        " ", "r", "o", "l", "l", "o", "u", "t", ".">>)])

\* a result written for the keywords of the devtools configuration
ResultDev == JDict([
    title |-> JStr(<<
        "E", "n", "g", "i", "n", "e", "e", "r", "i", "n", "g", " ", "b", "l", "o", "g", ":", " ",
        "A", "P", "I", " ", "S", "c", "a", "l", "i", "n", "g">>),
    url |-> JStr(<<
        "h", "t", "t", "p", "s", ":", "/", "/", "e", "x", "a", "m", "p", "l", "e", ".", "c", "o",
        "m", "/", "d", "e", "v">>),
    description |-> JStr(<<
        "O", "u", "r", " ", "p", "l", "a", "t", "f", "o", "r", "m", " ", "t", "e", "a", "m", " ",
        "m", "o", "v", "e", "d", " ", "e", "v", "e", "r", "y", " ", "s", "e", "r", "v", "i", "c",
        "e", " ", "t", "o", " ", "K", "u", "b", "e", "r", "n", "e", "t", "e", "s", " ", "a", "n",
        "d", " ", "r", "e", "b", "u", "i", "l", "t", " ", "t", "h", "e", " ", "f", "r", "o", "n",
        "t", "e", "n", "d", " ", "i", "n", " ", "R", "e", "a", "c", "t", ".">>)])

OkResults(results) == NetOk(JDict([results |-> JList(results)]))

\* answers the gateway turns into result lists the core can read
CleanAnswers == {
    OkResults(<<>>),
    OkResults(<<ResultShort, ResultA, ResultB>>),
    OkResults(<<ResultDev>>) }

\* failures and malformed payloads
BrokenAnswers ==
    {NetFail(outcome) : outcome \in NetFailures} \cup {
    NetOk(JNull),
    NetOk(JDict(EmptyDict)),
    NetOk(JDict([error |-> JStr(<<"q", "u", "o", "t", "a", " ", "e", "x", "c", "e", "e", "d", "e", "d">>)])),
    NetOk(JDict([results |-> JNull])),
    NetOk(JDict([results |-> JStr(<<"n", "o", "n", "e">>)])),
    NetOk(JDict([results |-> JNum(5)])),
    NetOk(JDict([results |-> JDict([organic |-> JList(<<ResultA>>)])])),
    NetOk(JList(<<JStr(str_results)>>)),
    NetOk(JList(<<ResultA>>)),
    NetOk(JStr(<<"n", "o", " ", "r", "e", "s", "u", "l", "t", "s">>)),
    NetOk(JNum(7)),
    OkResults(<<JStr(<<"S", "n", "o", "w", "f", "l", "a", "k", "e">>)>>),
    OkResults(<<JDict([title |-> JStr(<<"S", "n", "o", "w", "f", "l", "a", "k", "e">>), description |-> JNull])>>),
    OkResults(<<JDict([title |-> JStr(<<"S", "n", "o", "w", "f", "l", "a", "k", "e">>), description |-> JNum(404)])>>),
    OkResults(<<JDict([title |-> JStr(<<"S", "n", "o", "w", "f", "l", "a", "k", "e">>)])>>),
    OkResults(<<JDict([title |-> JNull, url |-> JNull,
                       description |-> DictGet(ResultA, "description", JNull)])>>) }

\* the queries track_signals can send for a group
QueriesOfGroup(signal_config, company_name, domain) ==
    {FormatQuery(signal_config.query_template, company_name, domain,
                 signal_config.keywords[k]) : k \in 1..Len(signal_config.keywords)}

\* a network that gives every query the same answer
UniformGateways ==
    {[client |-> "SerpClient", rules |-> <<>>, otherwise |-> answer] :
         answer \in CleanAnswers \cup BrokenAnswers}

\* the tracker of test_with_mock.py: MockSerpClient never reaches the network
MockGateway == [client |-> "MockSerpClient", rules |-> <<>>, otherwise |-> NetFail("timeout")]

\* for the queries of one group: nothing found, or results that name keywords
\* of every shipped group and of the devtools groups
GroupAnswers == {
    OkResults(<<>>),
    OkResults(<<ResultShort, ResultA, ResultDev>>) }

\* networks that give the queries of each group of the configuration an answer
\* of their own
GroupGateways(config, company_name, domain) ==
    LET queries == [g \in 1..Len(config) |-> QueriesOfGroup(config[g], company_name, domain)]
    IN  {[client |-> "SerpClient",
          rules |-> [g \in 1..Len(config) |->
                        [queries |-> queries[g], answer |-> by_group[g]]],
          otherwise |-> OkResults(<<>>)] :
             by_group \in [1..Len(config) -> GroupAnswers]}

(***************************************************************************)
(* The process: module state, the engine, and one command                  *)
(***************************************************************************)
NoReturn == [raised |-> "none", calls |-> <<>>, value |-> <<>>]

\* cli.py imports signal_tracker, which binds CUSTOM_SIGNALS, and builds the
\* engine before any command runs
Init ==
    /\ config_CUSTOM_SIGNALS \in BaselineConfigs
    /\ tracker_CUSTOM_SIGNALS = config_CUSTOM_SIGNALS
    /\ signals_config = config_CUSTOM_SIGNALS
    /\ thresholds = DefaultThresholds
    /\ active_preset = <<>>
    /\ call = [op |-> "start"]
    /\ ret = NoReturn

\* apply_preset with config.CUSTOM_SIGNALS emptied before the preset is loaded
ApplyPresetClearingFirst(preset_name) ==
    LET preset == LoadPreset(preset_name) IN
    /\ call.op \in {"start", "apply_preset", "new_engine"}
    /\ call' = [op |-> "apply_preset"]
    /\ IF preset.raised # "none"
       THEN /\ ret' = [raised |-> preset.raised, calls |-> <<>>,
                       value |-> preset.available]
            /\ config_CUSTOM_SIGNALS' = <<>>
            /\ UNCHANGED active_preset
       ELSE /\ config_CUSTOM_SIGNALS' = preset.value.signals
            /\ active_preset' = PresetFileName(preset_name)
            /\ ret' = [raised |-> "none", calls |-> <<>>, value |-> preset.value]
    /\ UNCHANGED <<tracker_CUSTOM_SIGNALS, signals_config, thresholds>>

\* PresetLoader.apply_preset(preset_name)
ApplyPreset(preset_name) ==
    LET preset == LoadPreset(preset_name) IN
    /\ call.op \in {"start", "apply_preset", "new_engine"}
    /\ call' = [op |-> "apply_preset"]
    /\ IF preset.raised # "none"
       THEN /\ ret' = [raised |-> preset.raised, calls |-> <<>>,
                       value |-> preset.available]
            /\ UNCHANGED <<config_CUSTOM_SIGNALS, active_preset>>
       ELSE /\ config_CUSTOM_SIGNALS' = preset.value.signals
            /\ active_preset' = PresetFileName(preset_name)
            /\ ret' = [raised |-> "none", calls |-> <<>>, value |-> preset.value]
    /\ UNCHANGED <<tracker_CUSTOM_SIGNALS, signals_config, thresholds>>

\* CustomEnrichmentEngine() with no tracker given: SignalTracker.__init__
NewEngine ==
    /\ call.op \in {"start", "apply_preset"}
    /\ signals_config' = tracker_CUSTOM_SIGNALS
    /\ thresholds' = DefaultThresholds
    /\ call' = [op |-> "new_engine"]
    /\ ret' = NoReturn
    /\ UNCHANGED <<config_CUSTOM_SIGNALS, tracker_CUSTOM_SIGNALS, active_preset>>

\* engine.enrich_with_custom_signals(domain, company_name, existing_data), the
\* last call of the command
Enrich(lead, gateway) ==
    /\ call.op \in {"start", "apply_preset", "new_engine"}
    /\ call' = [op |-> "enrich", lead |-> lead, gateway |-> gateway]
    /\ ret' = EnrichWithCustomSignals(lead.domain, lead.company_name, lead.existing_data,
                                      signals_config, thresholds, gateway)
    /\ UNCHANGED <<config_CUSTOM_SIGNALS, tracker_CUSTOM_SIGNALS, signals_config,
                   thresholds, active_preset>>

Next ==
    \/ \E preset_name \in PresetNames : ApplyPreset(preset_name)
    \/ NewEngine
    \/ /\ call.op # "enrich"
       /\ \E lead \in Leads, gateway \in UniformGateways \cup {MockGateway} :
              Enrich(lead, gateway)

Spec == Init /\ [][Next]_vars

(***************************************************************************)
(* Scoring alone: one run of the engine the process starts with, against   *)
(* networks that answer each group differently                             *)
(***************************************************************************)
NextScoring ==
    /\ call.op # "enrich"
    /\ \E lead \in Leads :
           \E gateway \in GroupGateways(signals_config,
                              EffectiveCompanyName(lead.domain, lead.company_name),
                              lead.domain) :
               Enrich(lead, gateway)

SpecScoring == Init /\ [][NextScoring]_vars

(***************************************************************************)
(* Intent classification alone: _calculate_intent over a range of scores   *)
(* and threshold settings                                                  *)
(***************************************************************************)
MaxScore == 130

\* INTENT_THRESHOLDS as shipped, with medium above high, and with both equal
ThresholdSettings == {
    DefaultThresholds,
    [high |-> 30, medium |-> 60, low |-> 0],
    [high |-> 45, medium |-> 45, low |-> 0] }

InitIntent ==
    /\ config_CUSTOM_SIGNALS = DefaultSignals
    /\ tracker_CUSTOM_SIGNALS = DefaultSignals
    /\ signals_config = DefaultSignals
    /\ thresholds \in ThresholdSettings
    /\ active_preset = <<>>
    /\ call \in {[op |-> "start", score |-> score] : score \in 0..MaxScore}
    /\ ret = NoReturn

\* tracker._calculate_intent(score)
CalculateIntentCall ==
    /\ call.op = "start"
    /\ call' = [op |-> "calculate_intent", score |-> call.score]
    /\ ret' = [raised |-> "none", calls |-> <<>>,
               value |-> CalculateIntent(call.score, thresholds)]
    /\ UNCHANGED <<config_CUSTOM_SIGNALS, tracker_CUSTOM_SIGNALS, signals_config,
                   thresholds, active_preset>>

SpecIntent == InitIntent /\ [][CalculateIntentCall]_vars

(***************************************************************************)
(* Name derivation alone: track_signals without a company name, over       *)
(* domains put together from a few pieces                                  *)
(***************************************************************************)
MaxDomainPieces == 3

DomainLabels == {<<"m", "y">>, <<"A", "p", "p">>}

DomainPieces == DomainLabels \cup {<<".", "c", "o", "m">>, <<".", "i", "o">>, <<".", "n", "e", "t">>, <<"-">>, <<"_">>}

\* a label followed by the given number of pieces
RECURSIVE DomainsOf(_)
DomainsOf(pieces) ==
    IF pieces = 0 THEN DomainLabels
    ELSE {domain \o piece : domain \in DomainsOf(pieces - 1), piece \in DomainPieces}

Domains ==
    UNION {DomainsOf(pieces) : pieces \in 1..MaxDomainPieces}
    \cup {<<"a", "c", "m", "e", ".", "c", "o", "m">>, <<"b", "r", "i", "g", "h", "t", "-", "d", "a", "t", "a", ".", "i", "o">>, <<"m", "y", "_", "a", "p", "p", ".", "n", "e", "t">>, <<"t", "e", "s", "t", ".", "c", "o", "m">>,
          <<"m", "y", ".", "c", "o", "m", "p", "a", "n", "y", ".", "c", "o", "m">>}

\* the network finds nothing
SilentGateway == [client |-> "SerpClient", rules |-> <<>>, otherwise |-> OkResults(<<>>)]

InitName ==
    /\ config_CUSTOM_SIGNALS = DefaultSignals
    /\ tracker_CUSTOM_SIGNALS = DefaultSignals
    /\ signals_config = DefaultSignals
    /\ thresholds = DefaultThresholds
    /\ active_preset = <<>>
    /\ call \in {[op |-> "start", domain |-> domain] : domain \in Domains}
    /\ ret = NoReturn

\* tracker.track_signals(domain)
TrackDomain ==
    /\ call.op = "start"
    /\ call' = [op |-> "track_signals", domain |-> call.domain]
    /\ ret' = TrackSignals(call.domain, JNull, signals_config, thresholds, SilentGateway)
    /\ UNCHANGED <<config_CUSTOM_SIGNALS, tracker_CUSTOM_SIGNALS, signals_config,
                   thresholds, active_preset>>

SpecName == InitName /\ [][TrackDomain]_vars

(***************************************************************************)
(* A batch: the engine the process starts with scores one lead after       *)
(* another (cli.py batch_command, test_enrichment.py test_multiple_leads)   *)
(***************************************************************************)
MaxBatchRows == 3

\* networks of a batch: nothing found, results for the shipped keywords, a
\* result whose title is null, and the mock client
BatchGateways == {
    SilentGateway,
    [client |-> "SerpClient", rules |-> <<>>,
     otherwise |-> OkResults(<<ResultShort, ResultA, ResultB>>)],
    [client |-> "SerpClient", rules |-> <<>>,
     otherwise |-> OkResults(<<JDict([title |-> JNull, url |-> JNull,
                       description |-> DictGet(ResultA, "description", JNull)])>>)],
    MockGateway }

InitBatch ==
    /\ config_CUSTOM_SIGNALS \in BaselineConfigs
    /\ tracker_CUSTOM_SIGNALS = config_CUSTOM_SIGNALS
    /\ signals_config = config_CUSTOM_SIGNALS
    /\ thresholds = DefaultThresholds
    /\ active_preset = <<>>
    /\ call = [op |-> "batch", row |-> 0]
    /\ ret = NoReturn

\* the step of the loop with the keywords of every group consumed as they are
\* queried: the tracker's configuration loses its first keywords
EnrichLeadConsumingKeywords(lead, gateway) ==
    /\ call.row < MaxBatchRows
    /\ call' = [op |-> "enrich", lead |-> lead, gateway |-> gateway,
                row |-> call.row + 1,
                repeat |-> call.op = "enrich" /\ call.lead = lead
                               /\ call.gateway = gateway]
    /\ ret' = EnrichWithCustomSignals(lead.domain, lead.company_name, JNull,
                                      signals_config, thresholds, gateway)
    /\ signals_config' =
           [g \in 1..Len(signals_config) |->
               [signals_config[g] EXCEPT
                   !.keywords = IF @ = <<>> THEN <<>> ELSE Tail(@)]]
    /\ UNCHANGED <<config_CUSTOM_SIGNALS, tracker_CUSTOM_SIGNALS, thresholds,
                   active_preset>>

\* the step of the loop with the profile of the row before handed out again
EnrichLeadKeepingProfile(lead, gateway) ==
    /\ call.row < MaxBatchRows
    /\ call' = [op |-> "enrich", lead |-> lead, gateway |-> gateway,
                row |-> call.row + 1,
                repeat |-> call.op = "enrich" /\ call.lead = lead
                               /\ call.gateway = gateway]
    /\ ret' = IF call.op = "enrich" /\ ret.raised = "none" THEN ret
              ELSE EnrichWithCustomSignals(lead.domain, lead.company_name,
                       JNull, signals_config, thresholds, gateway)
    /\ UNCHANGED <<config_CUSTOM_SIGNALS, tracker_CUSTOM_SIGNALS, signals_config,
                   thresholds, active_preset>>

\* one step of the loop: self.engine.enrich_with_custom_signals(domain,
\* company_name) for the next row, with no existing data; `repeat` records that the row and the network are those of the row
\* before
EnrichLead(lead, gateway) ==
    /\ call.row < MaxBatchRows
    /\ call' = [op |-> "enrich", lead |-> lead, gateway |-> gateway,
                row |-> call.row + 1,
                repeat |-> call.op = "enrich" /\ call.lead = lead
                               /\ call.gateway = gateway]
    /\ ret' = EnrichWithCustomSignals(lead.domain, lead.company_name, JNull,
                                      signals_config, thresholds, gateway)
    /\ UNCHANGED <<config_CUSTOM_SIGNALS, tracker_CUSTOM_SIGNALS, signals_config,
                   thresholds, active_preset>>

NextBatch == \E lead \in Leads, gateway \in BatchGateways : EnrichLead(lead, gateway)

SpecBatch == InitBatch /\ [][NextBatch]_vars

(***************************************************************************)
(* The matcher alone: _analyze_signal over lists of results and keyword    *)
(* sets                                                                    *)
(***************************************************************************)
MaxResults == 3

\* results as search_for_signals hands them on
FormattedResults ==
    FormatResults(<<ResultA, ResultB, ResultDev>>, ResultCount, <<>>).value

ResultLists ==
    UNION {[1..n -> {FormattedResults[i] : i \in 1..Len(FormattedResults)}] :
               n \in 0..MaxResults}

\* keyword sets: none, one, several with one listed twice, and keywords of
\* different groups
KeywordSets == {
    <<>>,
    <<kw_Snowflake>>,
    <<kw_Snowflake, kw_data_engineer, kw_dbt, kw_Snowflake>>,
    <<<<"R", "e", "a", "c", "t">>, kw_slow_reporting, kw_Databricks>>,
    <<kw_machine_learning_engineer, <<"K", "u", "b", "e", "r", "n", "e", "t", "e", "s">>>> }

InitAnalyze ==
    /\ config_CUSTOM_SIGNALS = DefaultSignals
    /\ tracker_CUSTOM_SIGNALS = DefaultSignals
    /\ signals_config = DefaultSignals
    /\ thresholds = DefaultThresholds
    /\ active_preset = <<>>
    /\ call \in {[op |-> "start", results |-> results, keywords |-> keywords] :
                    results \in ResultLists, keywords \in KeywordSets}
    /\ ret = NoReturn

\* tracker._analyze_signal(results, keywords)
AnalyzeSignalCall ==
    /\ call.op = "start"
    /\ call' = [call EXCEPT !.op = "analyze_signal"]
    /\ ret' = [raised |-> AnalyzeSignal(call.results, call.keywords).raised,
               calls |-> <<>>,
               value |-> AnalyzeSignal(call.results, call.keywords).value]
    /\ UNCHANGED <<config_CUSTOM_SIGNALS, tracker_CUSTOM_SIGNALS, signals_config,
                   thresholds, active_preset>>

SpecAnalyze == InitAnalyze /\ [][AnalyzeSignalCall]_vars


(***************************************************************************)
(* The matcher on results as the API words them: a title may be null, and  *)
(* search_for_signals hands it on as it is                                 *)
(***************************************************************************)
\* a result the API sends with a null title and a description the length
\* filter keeps
ResultNullTitle == JDict([
    title |-> JNull,
    url |-> JStr(<<
        "h", "t", "t", "p", "s", ":", "/", "/", "e", "x", "a", "m", "p", "l", "e", ".", "c", "o",
        "m", "/", "u", "n", "t", "i", "t", "l", "e", "d">>),
    description |-> DictGet(ResultA, "description", JNull)])

\* what search_for_signals hands on for these raw results
RawFormattedResults ==
    FormatResults(<<ResultA, ResultNullTitle, ResultDev>>, ResultCount, <<>>).value

RawResultLists ==
    UNION {[1..n -> {RawFormattedResults[i] : i \in 1..Len(RawFormattedResults)}] :
               n \in 0..MaxResults}

InitAnalyzeRaw ==
    /\ config_CUSTOM_SIGNALS = DefaultSignals
    /\ tracker_CUSTOM_SIGNALS = DefaultSignals
    /\ signals_config = DefaultSignals
    /\ thresholds = DefaultThresholds
    /\ active_preset = <<>>
    /\ call \in {[op |-> "start", results |-> results, keywords |-> keywords] :
                    results \in RawResultLists, keywords \in KeywordSets}
    /\ ret = NoReturn

SpecAnalyzeRaw == InitAnalyzeRaw /\ [][AnalyzeSignalCall]_vars

(***************************************************************************)
(* Scoring under an edited config.py: INTENT_THRESHOLDS and the weights of *)
(* CUSTOM_SIGNALS are whatever the file says when the tracker is built     *)
(***************************************************************************)
\* INTENT_THRESHOLDS as a user edits it: the settings above, and a high of 0
EditedThresholds == ThresholdSettings \cup {[high |-> 0, medium |-> 0, low |-> 0]}

InitEdited ==
    /\ config_CUSTOM_SIGNALS \in BaselineConfigs \cup {NegativeWeightSignals}
    /\ tracker_CUSTOM_SIGNALS = config_CUSTOM_SIGNALS
    /\ signals_config = config_CUSTOM_SIGNALS
    /\ thresholds \in EditedThresholds
    /\ active_preset = <<>>
    /\ call = [op |-> "start"]
    /\ ret = NoReturn

SpecEdited == InitEdited /\ [][NextScoring]_vars

(***************************************************************************)
(* The gateway alone: search_for_signals over raw responses whose          *)
(* descriptions lie on both sides of the length filter                     *)
(***************************************************************************)
MaxRawResults == 4

\* a description of n characters
DescriptionOfLength(n) == [i \in 1..n |-> "x"]

\* a raw result of the API with a description of n characters; the title tells
\* the results apart
RawResult(title, n) == JDict([
    title |-> JStr(title),
    url |-> JStr(<<
        "h", "t", "t", "p", "s", ":", "/", "/", "e", "x", "a", "m", "p", "l", "e", ".", "c", "o",
        "m", "/", "r", "a", "w">>),
    description |-> JStr(DescriptionOfLength(n))])

\* raw results just outside and just inside the filter
RawResults == {
    RawResult(<<"t", "o", "o", " ", "s", "h", "o", "r", "t">>, MinDescriptionLength - 1),
    RawResult(<<"s", "h", "o", "r", "t", "e", "s", "t">>, MinDescriptionLength),
    RawResult(<<"l", "o", "n", "g", "e", "s", "t">>, MaxDescriptionLength),
    RawResult(<<"t", "o", "o", " ", "l", "o", "n", "g">>, MaxDescriptionLength + 1) }

\* bodies with up to MaxRawResults of these results in any order, next to the
\* answers of the other specifications
RawAnswers ==
    {OkResults(results) : results \in UNION {[1..n -> RawResults] : n \in 0..MaxRawResults}}
    \cup CleanAnswers \cup BrokenAnswers

InitSearch ==
    /\ config_CUSTOM_SIGNALS = DefaultSignals
    /\ tracker_CUSTOM_SIGNALS = DefaultSignals
    /\ signals_config = DefaultSignals
    /\ thresholds = DefaultThresholds
    /\ active_preset = <<>>
    /\ call \in {[op |-> "start", net |-> net, result_count |-> result_count] :
                    net \in RawAnswers, result_count \in 1..ResultCount}
    /\ ret = NoReturn

\* client.search_for_signals(query, result_count) when the network answers net
SearchForSignalsCall ==
    /\ call.op = "start"
    /\ call' = [call EXCEPT !.op = "search_for_signals"]
    /\ ret' = [raised |-> SearchForSignals(call.net, call.result_count).raised,
               calls |-> <<>>,
               value |-> SearchForSignals(call.net, call.result_count).value]
    /\ UNCHANGED <<config_CUSTOM_SIGNALS, tracker_CUSTOM_SIGNALS, signals_config,
                   thresholds, active_preset>>

SpecSearch == InitSearch /\ [][SearchForSignalsCall]_vars

(***************************************************************************)
(* The starter generator alone: _generate_conversation_starters over       *)
(* reports of any shape, not only those track_signals builds               *)
(***************************************************************************)
\* an evidence entry with matched keywords, and one without any
EvidenceWithKeyword ==
    [source |-> <<
        "A", "c", "m", "e", " ", "h", "i", "r", "i", "n", "g", " ", "D", "a", "t", "a", " ", "E",
        "n", "g", "i", "n", "e", "e", "r">>, url |-> JStr(<<
        "h", "t", "t", "p", "s", ":", "/", "/", "e", "x", "a", "m", "p", "l", "e", ".", "c", "o",
        "m", "/", "a">>),
     matched_keywords |-> <<kw_data_engineer>>, snippet |-> <<"A", "c", "m", "e">>]

EvidenceWithoutKeyword ==
    [source |-> <<"R", "e", "v", "i", "e", "w">>, url |-> JStr(<<
        "h", "t", "t", "p", "s", ":", "/", "/", "e", "x", "a", "m", "p", "l", "e", ".", "c", "o",
        "m", "/", "b">>),
     matched_keywords |-> <<>>, snippet |-> <<"T", "e", "a", "m", "s">>]

\* what a report can hold for a group: nothing, or an entry with any detected
\* flag and no evidence, evidence with a keyword or evidence without one
EntriesOf(name) ==
    {<<>>} \cup
    {<<[name |-> name, detected |-> detected, weight |-> 25, evidence |-> evidence]>> :
        detected \in BOOLEAN,
        evidence \in {<<>>, <<EvidenceWithKeyword, EvidenceWithoutKeyword>>,
                      <<EvidenceWithoutKeyword, EvidenceWithKeyword>>}}

\* reports with any combination of the four groups the generator looks at, with
\* or without a detected group of another name
StarterReports ==
    {[company_name |-> <<"A", "c", "m", "e">>, domain |-> <<"a", "c", "m", "e", ".", "c", "o", "m">>,
      signals |-> hiring \o pain_point \o tech_stack \o strategic \o other] :
        hiring \in EntriesOf(hiring_signals),
        pain_point \in EntriesOf(pain_point_signals),
        tech_stack \in EntriesOf(tech_stack_signals),
        strategic \in EntriesOf(strategic_signals),
        other \in {<<>>, <<[name |-> developer_hiring, detected |-> TRUE, weight |-> 25,
                            evidence |-> <<EvidenceWithKeyword>>]>>}}

InitStarters ==
    /\ config_CUSTOM_SIGNALS = DefaultSignals
    /\ tracker_CUSTOM_SIGNALS = DefaultSignals
    /\ signals_config = DefaultSignals
    /\ thresholds = DefaultThresholds
    /\ active_preset = <<>>
    /\ call \in {[op |-> "start", signal_results |-> report] : report \in StarterReports}
    /\ ret = NoReturn

\* engine._generate_conversation_starters(signal_results)
GenerateConversationStartersCall ==
    /\ call.op = "start"
    /\ call' = [call EXCEPT !.op = "generate_conversation_starters"]
    /\ ret' = [raised |-> "none", calls |-> <<>>,
               value |-> GenerateConversationStarters(call.signal_results)]
    /\ UNCHANGED <<config_CUSTOM_SIGNALS, tracker_CUSTOM_SIGNALS, signals_config,
                   thresholds, active_preset>>

SpecStarters == InitStarters /\ [][GenerateConversationStartersCall]_vars

(***************************************************************************)
(* cli.py batch_command: the leads of the input file are enriched one      *)
(* after the other and the results saved                                   *)
(***************************************************************************)
MaxBatchLeads == 3

\* the rows csv.DictReader gives: a domain and a company_name, which is None
\* when the file has no such column and '' when the cell is empty
LeadRows == Leads

\* input files of one to MaxBatchLeads rows; a row may come more than once
LeadFiles == UNION {[1..n -> LeadRows] : n \in 1..MaxBatchLeads}

\* the network while one lead is enriched: results for the shipped keywords, or
\* a result whose title is null, on which the run raises
LeadGateways == {
    [client |-> "SerpClient", rules |-> <<>>,
     otherwise |-> OkResults(<<ResultShort, ResultA, ResultB>>)],
    [client |-> "SerpClient", rules |-> <<>>,
     otherwise |-> OkResults(<<ResultNullTitle>>)] }

\* the file is read (lines 97-115) and the loop has not started
InitBatchCommand ==
    /\ config_CUSTOM_SIGNALS = DefaultSignals
    /\ tracker_CUSTOM_SIGNALS = DefaultSignals
    /\ signals_config = DefaultSignals
    /\ thresholds = DefaultThresholds
    /\ active_preset = <<>>
    /\ call \in {[op |-> "batch_command", leads |-> leads, gateways |-> <<>>,
                  rows |-> <<>>] : leads \in LeadFiles}
    /\ ret = NoReturn

\* lines 129-146: what the pass appends to enriched_results
BatchEntry(lead, result) ==
    IF result.raised # "none"
    THEN [domain |-> lead.domain, error |-> result.raised]
    ELSE result.value

\* the pass of the loop with a lead that raises left out of enriched_results
EnrichNextLeadDroppingErrors(gateway) ==
    /\ call.op = "batch_command"
    /\ Len(call.gateways) < Len(call.leads)
    /\ call' = [call EXCEPT !.gateways = Append(@, gateway)]
    /\ ret' = [ret EXCEPT !.value =
                  LET lead == call.leads[Len(call.gateways) + 1]
                      result == EnrichWithCustomSignals(lead.domain, lead.company_name,
                                    JNull, signals_config, thresholds, gateway)
                  IN  IF result.raised # "none" THEN @ ELSE Append(@, result.value)]
    /\ UNCHANGED <<config_CUSTOM_SIGNALS, tracker_CUSTOM_SIGNALS, signals_config,
                   thresholds, active_preset>>

\* lines 122-146: one pass of the loop, for the next lead of the file; gateway
\* is what the network does during the pass
EnrichNextLead(gateway) ==
    /\ call.op = "batch_command"
    /\ Len(call.gateways) < Len(call.leads)
    /\ call' = [call EXCEPT !.gateways = Append(@, gateway)]
    /\ ret' = [ret EXCEPT !.value =
                  Append(@, BatchEntry(call.leads[Len(call.gateways) + 1],
                                EnrichWithCustomSignals(
                                    call.leads[Len(call.gateways) + 1].domain,
                                    call.leads[Len(call.gateways) + 1].company_name,
                                    JNull, signals_config, thresholds, gateway)))]
    /\ UNCHANGED <<config_CUSTOM_SIGNALS, tracker_CUSTOM_SIGNALS, signals_config,
                   thresholds, active_preset>>

\* _save_batch_csv, lines 392-411: the row written for a result; the date
\* column is left out
BatchCsvRow(result) ==
    IF "error" \in DOMAIN result
    THEN [company |-> <<>>, domain |-> result.domain, score |-> JStr(<<"E", "R", "R", "O", "R">>),
          intent |-> "", recommendation |-> result.error]
    ELSE [company |-> result.company_name, domain |-> result.domain,
          score |-> JNum(result.custom_signals.total_score),
          intent |-> result.custom_signals.intent_level,
          recommendation |-> result.custom_signals.recommendation]

\* lines 152-166 for the csv format: the loop is over and the rows are written
SaveBatchCsv ==
    /\ call.op = "batch_command"
    /\ Len(call.gateways) = Len(call.leads)
    /\ call' = [call EXCEPT !.op = "save_batch_csv",
                            !.rows = [i \in 1..Len(ret.value) |-> BatchCsvRow(ret.value[i])]]
    /\ UNCHANGED <<ret, config_CUSTOM_SIGNALS, tracker_CUSTOM_SIGNALS, signals_config,
                   thresholds, active_preset>>

NextBatchCommand ==
    \/ \E gateway \in LeadGateways : EnrichNextLead(gateway)
    \/ SaveBatchCsv

SpecBatchCommand == InitBatchCommand /\ [][NextBatchCommand]_vars

(***************************************************************************)
(* cli.py monitor_command: the leads of the file are enriched one after    *)
(* the other and those that score high enough are put on the alert list    *)
(***************************************************************************)
\* --alert-threshold, default=60
DefaultAlertThreshold == 60

\* the default, and a threshold one above it
AlertThresholds == {DefaultAlertThreshold, DefaultAlertThreshold + 1}

\* a result that names a hiring and a pain point keyword of the shipped
\* configuration and no other: the run scores 25 + 35
ResultHiringAndPain == JDict([
    title |-> JStr(<<
        "A", "c", "m", "e", " ", "h", "i", "r", "i", "n", "g", " ", "D", "a", "t", "a", " ", "E",
        "n", "g", "i", "n", "e", "e", "r">>),
    url |-> JStr(<<
        "h", "t", "t", "p", "s", ":", "/", "/", "e", "x", "a", "m", "p", "l", "e", ".", "c", "o",
        "m", "/", "j", "o", "b", "s">>),
    description |-> JStr(<<
        "T", "h", "e", " ", "t", "e", "a", "m", " ", "i", "s", " ", "h", "i", "r", "i", "n", "g",
        " ", "b", "e", "c", "a", "u", "s", "e", " ", "s", "l", "o", "w", " ", "r", "e", "p", "o",
        "r", "t", "i", "n", "g", " ", "h", "o", "l", "d", "s", " ", "b", "a", "c", "k", " ", "e",
        "v", "e", "r", "y", " ", "q", "u", "a", "r", "t", "e", "r", "l", "y", " ", "r", "e", "v",
        "i", "e", "w", ".">>)])

\* the network while one lead is monitored: nothing found, the result above, or
\* a result whose title is null, on which the run raises
MonitorGateways == {
    SilentGateway,
    [client |-> "SerpClient", rules |-> <<>>,
     otherwise |-> OkResults(<<ResultHiringAndPain>>)],
    [client |-> "SerpClient", rules |-> <<>>,
     otherwise |-> OkResults(<<ResultNullTitle>>)] }

\* the leads file: up to MaxBatchLeads rows, none included; rows with and
\* without a company name
MonitoredFiles ==
    UNION {[1..n -> {lead \in Leads : lead.company_name # JStr(<<>>)}] :
               n \in 0..MaxBatchLeads}

\* the file is read (lines 187-194) and the loop has not started
InitMonitor ==
    /\ config_CUSTOM_SIGNALS = DefaultSignals
    /\ tracker_CUSTOM_SIGNALS = DefaultSignals
    /\ signals_config = DefaultSignals
    /\ thresholds = DefaultThresholds
    /\ active_preset = <<>>
    /\ call \in {[op |-> "monitor_command", leads |-> leads, gateways |-> <<>>,
                  alert_threshold |-> alert_threshold] :
                    leads \in MonitoredFiles, alert_threshold \in AlertThresholds}
    /\ ret = NoReturn

\* lines 215-221: the alert made from a profile
Alert(domain, result) ==
    [domain |-> domain,
     company_name |-> result.company_name,
     score |-> result.custom_signals.total_score,
     intent |-> result.custom_signals.intent_level,
     recommendation |-> result.custom_signals.recommendation]

\* lines 209-227 with > written for >= in the test of the threshold
MonitoredAbove(alerts, domain, result, alert_threshold) ==
    IF result.raised # "none" THEN alerts
    ELSE IF result.value.custom_signals.total_score > alert_threshold
    THEN Append(alerts, Alert(domain, result.value))
    ELSE alerts

\* lines 209-227: the alerts after the pass, given what the enrichment of the
\* lead returned or raised
Monitored(alerts, domain, result, alert_threshold) ==
    IF result.raised # "none" THEN alerts
    ELSE IF result.value.custom_signals.total_score >= alert_threshold
    THEN Append(alerts, Alert(domain, result.value))
    ELSE alerts

\* lines 205-227: one pass of the loop, for the next lead of the file; gateway
\* is what the network does during the pass
MonitorNextLead(gateway) ==
    /\ call.op = "monitor_command"
    /\ Len(call.gateways) < Len(call.leads)
    /\ call' = [call EXCEPT !.gateways = Append(@, gateway)]
    /\ ret' = [ret EXCEPT !.value =
                  Monitored(@, call.leads[Len(call.gateways) + 1].domain,
                      EnrichWithCustomSignals(
                          call.leads[Len(call.gateways) + 1].domain,
                          call.leads[Len(call.gateways) + 1].company_name,
                          JNull, signals_config, thresholds, gateway),
                      call.alert_threshold)]
    /\ UNCHANGED <<config_CUSTOM_SIGNALS, tracker_CUSTOM_SIGNALS, signals_config,
                   thresholds, active_preset>>

NextMonitor == \E gateway \in MonitorGateways : MonitorNextLead(gateway)

SpecMonitor == InitMonitor /\ [][NextMonitor]_vars
(***************************************************************************)
(* Properties                                                              *)
(***************************************************************************)
\* the run of the engine has returned a profile
EnrichReturned == call.op = "enrich" /\ ret.raised = "none"

RECURSIVE SumWeights(_)
SumWeights(groups) ==
    IF groups = <<>> THEN 0 ELSE Head(groups).weight + SumWeights(Tail(groups))

\* the groups of a configuration that are enabled and that the report marks
\* detected
EnabledAndDetected(config, signals) ==
    SelectSeq(config, LAMBDA g :
        /\ g.enabled
        /\ \E i \in 1..Len(signals) : signals[i].name = g.name /\ signals[i].detected)

\* the configuration with its groups declared in the order p
Reordered(config, p) == [i \in 1..Len(config) |-> config[p[i]]]

\* the total of a run over the same lead and network with the groups reordered
ReorderedTotal(p) ==
    TrackSignals(call.lead.domain, call.lead.company_name,
                 Reordered(signals_config, p), thresholds, call.gateway)

\* C1: the total_score of a run is the sum of the weights of exactly the groups
\* that are enabled and detected, and every order of declaring the groups gives
\* the same total.
C1_TotalScoreIsWeightedSum ==
    EnrichReturned =>
        /\ ret.value.custom_signals.total_score =
               SumWeights(EnabledAndDetected(signals_config,
                                             ret.value.custom_signals.detected_signals))
        /\ \A p \in Permutations(1..Len(signals_config)) :
               LET reordered == ReorderedTotal(p) IN
               /\ reordered.raised = "none"
               /\ reordered.value.total_score = ret.value.custom_signals.total_score

\* a run under the shipped configuration in which hiring and strategic, and
\* only they, are detected: 25 + 15
C1_Witness ==
    /\ EnrichReturned
    /\ signals_config = DefaultSignals
    /\ ret.value.custom_signals.total_score = 40
    /\ Len(EnabledAndDetected(signals_config,
                              ret.value.custom_signals.detected_signals)) = 2

\* the groups a report covers, and the groups a configuration asks for
ReportedGroups(signals) ==
    [i \in 1..Len(signals) |-> [name |-> signals[i].name, weight |-> signals[i].weight]]

EnabledGroups(config) ==
    ReportedGroups(SelectSeq(config, LAMBDA g : g.enabled))

\* C2: once apply_preset has returned, every run that follows in the process
\* evaluates the groups of the preset and not those of the baseline, whether the
\* engine was built before the call or after it.
C2_PresetGovernsLaterRuns ==
    (EnrichReturned /\ active_preset # <<>>) =>
        ReportedGroups(ret.value.custom_signals.detected_signals) =
            EnabledGroups(PresetFiles[active_preset].signals)

\* the failures and malformed payloads the gateway is said to swallow: the four
\* failures of the request, a body without 'results', 'results' that is not a
\* list of records, and a record whose description is not a string
SwallowedAnswers ==
    {NetFail(outcome) : outcome \in NetFailures} \cup {
    NetOk(JDict(EmptyDict)),
    NetOk(JDict([error |-> JStr(<<"q", "u", "o", "t", "a", " ", "e", "x", "c", "e", "e", "d", "e", "d">>)])),
    NetOk(JDict([results |-> JStr(<<"n", "o", "n", "e">>)])),
    NetOk(JDict([results |-> JNum(5)])),
    NetOk(JDict([results |-> JDict([organic |-> JList(<<ResultA>>)])])),
    OkResults(<<JStr(<<"S", "n", "o", "w", "f", "l", "a", "k", "e">>)>>),
    OkResults(<<JDict([title |-> JStr(<<"S", "n", "o", "w", "f", "l", "a", "k", "e">>), description |-> JNull])>>),
    OkResults(<<JDict([title |-> JStr(<<"S", "n", "o", "w", "f", "l", "a", "k", "e">>), description |-> JNum(404)])>>) }

\* C3: every gateway failure and every malformed payload makes
\* search_for_signals return an empty list, and no exception reaches
\* track_signals.
C3_GatewayFailuresAreSwallowed ==
    (/\ call.op = "enrich"
     /\ call.gateway.client = "SerpClient"
     /\ call.gateway.otherwise \in SwallowedAnswers) =>
        /\ SearchForSignals(call.gateway.otherwise, ResultCount) = Returns(<<>>)
        /\ ret.raised = "none"

\* C4: the intent level depends on the score and the thresholds alone, with
\* inclusive lower bounds: High iff score >= high, Medium iff medium <= score <
\* high, Low otherwise; with high 60 and medium 30, 29 is Low, 30 and 59 are
\* Medium and 60 is High.
C4_IntentLowerBoundsInclusive ==
    call.op = "calculate_intent" =>
        /\ (ret.value = "High") <=> (call.score >= thresholds.high)
        /\ (ret.value = "Medium") <=>
               (thresholds.medium <= call.score /\ call.score < thresholds.high)
        /\ (ret.value = "Low") <=>
               (call.score < thresholds.high /\ call.score < thresholds.medium)
        /\ thresholds = DefaultThresholds =>
               /\ call.score = 29 => ret.value = "Low"
               /\ call.score = 30 => ret.value = "Medium"
               /\ call.score = 59 => ret.value = "Medium"
               /\ call.score = 60 => ret.value = "High"

\* a score on the lower bound of High under the shipped thresholds
C4_Witness ==
    /\ call.op = "calculate_intent"
    /\ thresholds = DefaultThresholds
    /\ call.score = thresholds.high
    /\ ret.value = "High"

\* the name the derivation is said to give: the domain without its trailing
\* '.com', else without its trailing '.io', else without its trailing '.net',
\* with '-' and '_' read as spaces, title-cased
TrailingSuffixName(domain) ==
    LET Without(suffix) == SubSeq(domain, 1, Len(domain) - Len(suffix))
        stem == IF EndsWith(domain, <<".", "c", "o", "m">>) THEN Without(<<".", "c", "o", "m">>)
                ELSE IF EndsWith(domain, <<".", "i", "o">>) THEN Without(<<".", "i", "o">>)
                ELSE IF EndsWith(domain, <<".", "n", "e", "t">>) THEN Without(<<".", "n", "e", "t">>)
                ELSE domain
    IN  Title(StrReplace(StrReplace(stem, <<"-">>, <<" ">>), <<"_">>, <<" ">>))

\* C5: without a company name, the name in the report is the domain with only
\* a trailing '.com', '.io' or '.net' removed (the first that matches, and no
\* occurrence elsewhere), '-' and '_' replaced by spaces, and each word
\* title-cased.
C5_NameStripsTrailingSuffixOnly ==
    call.op = "track_signals" =>
        /\ ret.raised = "none"
        /\ ret.value.company_name = TrailingSuffixName(call.domain)

\* under the shipped names, the group a starter template speaks of
StarterGroup ==
    [hiring |-> hiring_signals, tech_stack |-> tech_stack_signals,
     pain_point |-> pain_point_signals, strategic |-> strategic_signals]

\* what a starter made from the report entry of a group refers to: the first
\* matched keyword of the first evidence entry, or its title for the strategic
\* group
StarterReference(entry) ==
    IF entry.name = strategic_signals
    THEN entry.evidence[1].source
    ELSE entry.evidence[1].matched_keywords[1]

\* the report entries that are detected with evidence, taken in the order of
\* the names given
RECURSIVE DetectedInOrder(_, _)
DetectedInOrder(signals, names) ==
    IF names = <<>> THEN <<>>
    ELSE LET found == SelectSeq(signals, LAMBDA entry :
                          /\ entry.name = Head(names)
                          /\ entry.detected
                          /\ entry.evidence # <<>>)
         IN  found \o DetectedInOrder(signals, Tail(names))

\* the starters of a profile agree, one for one, with the first three entries
\* of `due`
StartersAgreeWith(starters, due) ==
    /\ Len(starters) = (IF Len(due) < 3 THEN Len(due) ELSE 3)
    /\ \A i \in 1..Len(starters) :
           /\ starters[i].template \in DOMAIN StarterGroup
           /\ StarterGroup[starters[i].template] = due[i].name
           /\ starters[i].arg = StarterReference(due[i])

DetectedWithEvidence(signals) ==
    SelectSeq(signals, LAMBDA entry : entry.detected /\ entry.evidence # <<>>)

GenericTemplates == {"generic_data_strategy", "generic_collaboration", "generic_growth"}

\* C7: for any configuration, custom group names included, the starters come
\* from walking the groups in declared order, one starter from the first
\* evidence entry of each detected group with evidence until three are
\* collected; the generic fallback is returned only when no group is detected
\* with evidence.
C7_StartersFollowDeclaredOrder ==
    EnrichReturned =>
        LET due == DetectedWithEvidence(ret.value.custom_signals.detected_signals)
            starters == ret.value.conversation_starters
        IN  IF due = <<>>
            THEN \A i \in 1..Len(starters) : starters[i].template \in GenericTemplates
            ELSE /\ Len(starters) = (IF Len(due) < 3 THEN Len(due) ELSE 3)
                 /\ \A i \in 1..Len(starters) :
                        /\ starters[i].template \notin GenericTemplates
                        /\ starters[i].arg \in {due[i].evidence[1].matched_keywords[1],
                                                due[i].evidence[1].source}

\* C8: the method returns at most three starters; once three are collected no
\* further group adds to the output.
C8_AtMostThreeStarters ==
    EnrichReturned =>
        LET signals == ret.value.custom_signals.detected_signals
            starters == ret.value.conversation_starters
        IN  /\ Len(starters) <= 3
            /\ Len(DetectedInOrder(signals, <<hiring_signals, tech_stack_signals,
                                              pain_point_signals>>)) = 3 =>
                   \A i \in 1..Len(starters) : starters[i].template # "strategic"

\* four groups detected with evidence, three starters returned
C8_Witness ==
    /\ EnrichReturned
    /\ Len(DetectedWithEvidence(ret.value.custom_signals.detected_signals)) = 4
    /\ HasSignal(ret.value.custom_signals.detected_signals, strategic_signals)
    /\ Len(ret.value.conversation_starters) = 3

\* the gateway hands an empty result list to every query of the run
EveryQueryComesBackEmpty ==
    /\ call.op = "enrich"
    /\ call.gateway.client = "SerpClient"
    /\ call.gateway.rules = <<>>
    /\ SearchForSignals(call.gateway.otherwise, ResultCount) = Returns(<<>>)

MockRun ==
    /\ call.op = "enrich"
    /\ call.gateway = MockGateway
    /\ signals_config = DefaultSignals

\* C10: with the shipped four groups (25/35/25/15) and the gateway of
\* MockSerpClient, all four groups are detected, total_score is 100, the intent
\* level is High, and exactly three starters are produced, each referring to
\* the first matched keyword of the first evidence entry of a detected group
\* of its own.
C10_MockEndToEnd ==
    MockRun =>
        /\ ret.raised = "none"
        /\ Len(ret.value.custom_signals.detected_signals) = 4
        /\ \A i \in 1..4 : ret.value.custom_signals.detected_signals[i].detected
        /\ ret.value.custom_signals.total_score = 100
        /\ ret.value.custom_signals.intent_level = "High"
        /\ Len(ret.value.conversation_starters) = 3
        /\ \E group \in [1..3 -> 1..4] :
               /\ \A i, j \in 1..3 : group[i] = group[j] => i = j
               /\ \A i \in 1..3 :
                      LET entry == ret.value.custom_signals.detected_signals[group[i]]
                      IN  /\ entry.detected
                          /\ ret.value.conversation_starters[i].arg =
                                 entry.evidence[1].matched_keywords[1]

\* the mock run for snowflake.com: the starters speak of 'data engineer',
\* 'Snowflake' and 'manual data processes'
C10_Witness ==
    /\ MockRun
    /\ call.lead.domain = <<"s", "n", "o", "w", "f", "l", "a", "k", "e", ".", "c", "o", "m">>
    /\ ret.raised = "none"
    /\ [i \in 1..3 |-> ret.value.conversation_starters[i].arg] =
           <<kw_data_engineer, kw_Snowflake, kw_manual_data_processes>>

\* the report entries marked detected
DetectedEntries(signals) == SelectSeq(signals, LAMBDA entry : entry.detected)

OccursIn(keyword, result) ==
    \/ StrContains(ToLower(result.title.v), ToLower(keyword))
    \/ StrContains(ToLower(result.description), ToLower(keyword))

\* some keyword of the group occurs in some result the gateway returned for the
\* query of that keyword
SomeKeywordMatched(group, company_name, domain, gateway) ==
    \E k \in 1..Len(group.keywords) :
        LET results == CallSerp(gateway,
                           FormatQuery(group.query_template, company_name, domain,
                                       group.keywords[k])).value
        IN  \E r \in 1..Len(results) : OccursIn(group.keywords[k], results[r])

\* the group of the configuration a report entry stands for
GroupNamed(config, name) == config[CHOOSE g \in 1..Len(config) : config[g].name = name]

\* C12: in every report, a group is detected iff one of its keywords matched
\* the title or description of a result returned for that keyword's query, and
\* iff its evidence list is not empty.
C12_DetectedIffEvidence ==
    EnrichReturned =>
        \A i \in 1..Len(ret.value.custom_signals.detected_signals) :
            LET entry == ret.value.custom_signals.detected_signals[i] IN
            /\ entry.detected <=>
                   SomeKeywordMatched(GroupNamed(signals_config, entry.name),
                                      ret.value.company_name, ret.value.domain,
                                      call.gateway)
            /\ entry.detected <=> (entry.evidence # <<>>)

\* a report with a group that is detected and a group that is looked at but
\* not detected
C12_Witness ==
    /\ EnrichReturned
    /\ \E i, j \in 1..Len(ret.value.custom_signals.detected_signals) :
           /\ ret.value.custom_signals.detected_signals[i].detected
           /\ ret.value.custom_signals.detected_signals[i].evidence # <<>>
           /\ ~ret.value.custom_signals.detected_signals[j].detected
           /\ Len(GroupNamed(signals_config,
                    ret.value.custom_signals.detected_signals[j].name).keywords) > 0

\* C13: apply_preset for a name no preset file bears raises FileNotFoundError,
\* the failure names every available preset, and config.CUSTOM_SIGNALS (like
\* the engine's own configuration) is left as it was.
C13_MissingPresetLeavesConfig ==
    [][(call'.op = "apply_preset" /\ ret'.raised # "none") =>
          /\ ret'.raised = "FileNotFoundError"
          /\ ret'.value = {preset_devtools, <<"h", "r", "t", "e", "c", "h">>}
          /\ config_CUSTOM_SIGNALS' = config_CUSTOM_SIGNALS
          /\ signals_config' = signals_config
          /\ active_preset' = active_preset]_vars

\* a lookup that fails after a preset was applied: the preset stays in
\* config.CUSTOM_SIGNALS
C13_Witness ==
    /\ call.op = "apply_preset"
    /\ ret.raised = "FileNotFoundError"
    /\ active_preset = preset_devtools_json
    /\ config_CUSTOM_SIGNALS = DevtoolsSignals
    /\ tracker_CUSTOM_SIGNALS # DevtoolsSignals

\* the gateway hands a result list, empty or not, to every query of the run
EveryQueryGetsAResultList ==
    /\ call.op = "enrich"
    /\ \/ call.gateway.client = "MockSerpClient"
       \/ /\ call.gateway.rules = <<>>
          /\ SearchForSignals(call.gateway.otherwise, ResultCount).raised = "none"

\* C14: the core operations are total: for any domain and company name, any
\* result lists the gateway returns, empty ones included, and any zero-weight
\* configuration, the run returns a profile and raises nothing.
C14_CoreNeverRaises ==
    EveryQueryGetsAResultList => ret.raised = "none"

FreshProfile ==
    EnrichWithCustomSignals(call.lead.domain, call.lead.company_name, JNull,
                            tracker_CUSTOM_SIGNALS, DefaultThresholds, call.gateway)

\* C16: scoring subjects one after another shares no state between them: a
\* run leaves signals_config and thresholds as they were, and the report of a
\* subject is that of an engine which scored nothing before, whatever was
\* scored earlier and in whatever order.
C16_NoStateSharedBetweenSubjects ==
    /\ [][call'.op = "enrich" =>
             /\ signals_config' = signals_config
             /\ thresholds' = thresholds]_vars
    /\ [](call.op = "enrich" => ret = FreshProfile)

\* the third row of a batch, scored after a different subject whose run raised
\* or returned
C16_Witness ==
    /\ EnrichReturned
    /\ call.row = 3
    /\ ~call.repeat
    /\ ret.value.custom_signals.total_score > 0

\* the report track_signals gives for the lead and network of the run
ReportOfRun ==
    TrackSignals(call.lead.domain, call.lead.company_name, signals_config,
                 thresholds, call.gateway)

\* the profile agrees field by field with a report, and carries the data given
ProfileWraps(profile, report, existing_data) ==
    /\ profile.domain = report.domain
    /\ profile.company_name = report.company_name
    /\ profile.custom_signals.total_score = report.total_score
    /\ profile.custom_signals.intent_level = report.intent_level
    /\ profile.custom_signals.detected_signals = report.signals
    /\ profile.custom_signals.recommendation = report.recommendation
    /\ profile.standard_data =
           (IF existing_data = JNull THEN JDict(EmptyDict) ELSE existing_data)

\* C17: the profile is a plain wrapping of the report: its domain, company
\* name, total_score, intent_level, detected_signals and recommendation are
\* those of the report track_signals returned, and standard_data is the
\* existing_data of the caller unchanged, or an empty mapping when none is
\* given.
C17_ProfileWrapsReport ==
    EnrichReturned =>
        /\ ReportOfRun.raised = "none"
        /\ ProfileWraps(ret.value, ReportOfRun.value, call.lead.existing_data)

\* a profile for a caller who handed in data of their own
C17_Witness ==
    /\ EnrichReturned
    /\ call.lead.existing_data = JDict([industry |-> JStr(<<"S", "a", "a", "S">>)])
    /\ ret.value.standard_data = call.lead.existing_data
    /\ ret.value.custom_signals.total_score > 0

\* the queries of one group, keyword by keyword
QueriesInOrder(group, company_name, domain) ==
    [k \in 1..Len(group.keywords) |->
        FormatQuery(group.query_template, company_name, domain, group.keywords[k])]

\* the queries of the enabled groups, group by group in declared order
RECURSIVE ExpectedQueries(_, _, _)
ExpectedQueries(config, company_name, domain) ==
    IF config = <<>> THEN <<>>
    ELSE (IF Head(config).enabled
          THEN QueriesInOrder(Head(config), company_name, domain)
          ELSE <<>>) \o ExpectedQueries(Tail(config), company_name, domain)

RECURSIVE CountKeywords(_)
CountKeywords(config) ==
    IF config = <<>> THEN 0
    ELSE (IF Head(config).enabled THEN Len(Head(config).keywords) ELSE 0)
             + CountKeywords(Tail(config))

\* C18: a run calls the gateway exactly once per keyword of every enabled
\* group: the queries are sent group by group and keyword by keyword in
\* declared order, each formatted from the group's template with the company
\* name, the domain and the keyword; equal queries are sent again, an empty or
\* failed query is not retried, and the number of calls is the number of
\* keywords of the enabled groups.
C18_OneCallPerKeyword ==
    EnrichReturned =>
        /\ ret.calls = ExpectedQueries(signals_config, ret.value.company_name,
                                       call.lead.domain)
        /\ Len(ret.calls) = CountKeywords(signals_config)

\* a run whose requests all time out and in which one query is due three
\* times: four calls, two distinct queries
C18_Witness ==
    /\ EnrichReturned
    /\ signals_config = RepeatedKeywordSignals
    /\ call.gateway.client = "SerpClient"
    /\ call.gateway.otherwise = NetFail("timeout")
    /\ Len(ret.calls) = 4
    /\ Cardinality({ret.calls[c] : c \in 1..Len(ret.calls)}) = 2

\* the disabled groups of the configuration
DisabledGroups(config) == SelectSeq(config, LAMBDA g : ~g.enabled)

\* C19: a group whose 'enabled' flag is false is skipped entirely: none of its
\* queries is sent, its weight is not in total_score, and the report has no
\* entry for it, even when its keywords would have matched.
C19_DisabledGroupsSkipped ==
    EnrichReturned =>
        LET signals == ret.value.custom_signals.detected_signals
            disabled == DisabledGroups(signals_config)
        IN  /\ \A d \in 1..Len(disabled) :
                   /\ ~HasSignal(signals, disabled[d].name)
                   /\ \A c \in 1..Len(ret.calls) :
                          ret.calls[c] \notin QueriesOfGroup(disabled[d],
                                                  ret.value.company_name,
                                                  call.lead.domain)
            /\ ret.value.custom_signals.total_score =
                   SumWeights(SelectSeq(signals_config, LAMBDA g :
                       /\ g.enabled
                       /\ SomeKeywordMatched(g, ret.value.company_name,
                                             call.lead.domain, call.gateway)))

\* a run in which the keywords of a disabled group occur in the results
C19_Witness ==
    /\ EnrichReturned
    /\ signals_config = PartlyDisabledSignals
    /\ \E d \in 1..Len(DisabledGroups(signals_config)) :
           /\ DisabledGroups(signals_config)[d].weight > 0
           /\ SomeKeywordMatched(DisabledGroups(signals_config)[d],
                  ret.value.company_name, call.lead.domain, call.gateway)
    /\ ret.value.custom_signals.total_score = 40

\* the positions of the results in which a keyword of the set occurs
MatchingResults(results, keywords) ==
    SelectSeq([i \in 1..Len(results) |-> i], LAMBDA i :
        \E k \in 1..Len(keywords) : OccursIn(keywords[k], results[i]))

\* C20: _analyze_signal gives exactly one evidence entry for each result in
\* which a keyword of the set occurs and none for the others; the entry lists
\* every keyword of the set that occurs in the title or description of its
\* result, and the entries stand in the order of the results.
C20_OneEvidencePerMatchingResult ==
    call.op = "analyze_signal" =>
        LET matching == MatchingResults(call.results, call.keywords)
            evidence == ret.value.evidence
        IN  /\ ret.raised = "none"
            /\ Len(evidence) = Len(matching)
            /\ \A e \in 1..Len(evidence) :
                   /\ evidence[e].source = call.results[matching[e]].title.v
                   /\ evidence[e].url = call.results[matching[e]].url
                   /\ evidence[e].snippet = call.results[matching[e]].snippet
                   /\ evidence[e].matched_keywords =
                          SelectSeq(call.keywords, LAMBDA keyword :
                              OccursIn(keyword, call.results[matching[e]]))
            /\ ret.value.detected <=> (matching # <<>>)

\* three results of which the second matches nothing and the first matches
\* two keywords, one of them listed twice
C20_Witness ==
    /\ call.op = "analyze_signal"
    /\ Len(call.results) = 3
    /\ MatchingResults(call.results, call.keywords) = <<1, 3>>
    /\ Len(ret.value.evidence) = 2
    /\ Len(ret.value.evidence[1].matched_keywords) = 3

\* the text a keyword can occur in: a title that is not a str holds none
TextOf(value) == IF value.t = "str" THEN value.v ELSE <<>>

\* no keyword of the set occurs in the title or description of any result
NoKeywordOccurs(results, keywords) ==
    \A r \in 1..Len(results), k \in 1..Len(keywords) :
        /\ ~StrContains(ToLower(TextOf(results[r].title)), ToLower(keywords[k]))
        /\ ~StrContains(ToLower(results[r].description), ToLower(keywords[k]))

\* C21: _analyze_signal returns (False, []) and raises nothing whenever the
\* result list is empty, and whenever no keyword of the set occurs in the title
\* or description of any result.
C21_NoMatchNeverRaises ==
    (/\ call.op = "analyze_signal"
     /\ call.results = <<>> \/ NoKeywordOccurs(call.results, call.keywords)) =>
        /\ ret.raised = "none"
        /\ ret.value = [detected |-> FALSE, evidence |-> <<>>]

\* the labels str.replace('_', ' ').title() gives the group names in use
LabelOfGroup(name) ==
    CASE name = hiring_signals -> <<"H", "i", "r", "i", "n", "g", " ", "S", "i", "g", "n", "a", "l", "s">>
      [] name = pain_point_signals -> <<"P", "a", "i", "n", " ", "P", "o", "i", "n", "t", " ", "S", "i", "g", "n", "a", "l", "s">>
      [] name = tech_stack_signals -> <<"T", "e", "c", "h", " ", "S", "t", "a", "c", "k", " ", "S", "i", "g", "n", "a", "l", "s">>
      [] name = strategic_signals -> <<"S", "t", "r", "a", "t", "e", "g", "i", "c", " ", "S", "i", "g", "n", "a", "l", "s">>
      [] name = framework_adoption -> <<"F", "r", "a", "m", "e", "w", "o", "r", "k", " ", "A", "d", "o", "p", "t", "i", "o", "n">>
      [] name = api_performance -> <<"A", "p", "i", " ", "P", "e", "r", "f", "o", "r", "m", "a", "n", "c", "e">>
      [] name = infrastructure_signals -> <<
          "I", "n", "f", "r", "a", "s", "t", "r", "u", "c", "t", "u", "r", "e", " ", "S", "i", "g",
          "n", "a", "l", "s">>
      [] name = developer_hiring -> <<"D", "e", "v", "e", "l", "o", "p", "e", "r", " ", "H", "i", "r", "i", "n", "g">>

\* C22: the recommendation follows the tier: for High it names the labels of
\* the first two detected groups in declared order (of the one group if only
\* one is detected), for Medium it states the number of groups with detected =
\* true, for Low it is the fixed nurture text whatever the signals.
C22_RecommendationFollowsTier ==
    EnrichReturned =>
        LET report == ret.value.custom_signals
            detected == DetectedEntries(report.detected_signals)
        IN  /\ report.intent_level = "High" /\ detected # <<>> =>
                   /\ report.recommendation.template = "high_lead_with"
                   /\ Len(report.recommendation.lead_with) =
                          (IF Len(detected) < 2 THEN Len(detected) ELSE 2)
                   /\ \A i \in 1..Len(report.recommendation.lead_with) :
                          report.recommendation.lead_with[i] =
                              LabelOfGroup(detected[i].name)
            /\ report.intent_level = "Medium" =>
                   /\ report.recommendation.template = "medium"
                   /\ report.recommendation.detected_count = Len(detected)
            /\ report.intent_level = "Low" =>
                   report.recommendation =
                       [template |-> "low", lead_with |-> <<>>, detected_count |-> 0]

\* a High report with more than two groups detected: the first two are named
C22_Witness ==
    /\ EnrichReturned
    /\ ret.value.custom_signals.intent_level = "High"
    /\ Len(DetectedEntries(ret.value.custom_signals.detected_signals)) > 2
    /\ ret.value.custom_signals.recommendation.lead_with =
           <<<<"H", "i", "r", "i", "n", "g", " ", "S", "i", "g", "n", "a", "l", "s">>, <<"P", "a", "i", "n", " ", "P", "o", "i", "n", "t", " ", "S", "i", "g", "n", "a", "l", "s">>>>

\* every weight of the configuration is zero or more
WeightsNonNegative(config) == \A g \in 1..Len(config) : config[g].weight >= 0

\* C23: with thresholds.high > 0 and non-negative weights, every report of
\* intent level High has at least one detected group, so its recommendation is
\* the one that names labels, never the generic High text.
C23_HighNamesALabel ==
    (/\ EnrichReturned
     /\ thresholds.high > 0
     /\ WeightsNonNegative(signals_config)
     /\ ret.value.custom_signals.intent_level = "High") =>
        /\ DetectedEntries(ret.value.custom_signals.detected_signals) # <<>>
        /\ ret.value.custom_signals.recommendation.template = "high_lead_with"
        /\ Len(ret.value.custom_signals.recommendation.lead_with) >= 1

\* a High report under edited thresholds with a single group detected
C23_Witness ==
    /\ EnrichReturned
    /\ thresholds = [high |-> 30, medium |-> 60, low |-> 0]
    /\ WeightsNonNegative(signals_config)
    /\ ret.value.custom_signals.intent_level = "High"
    /\ Len(DetectedEntries(ret.value.custom_signals.detected_signals)) = 1
    /\ Len(ret.value.custom_signals.recommendation.lead_with) = 1

\* C24: thresholds with medium > high are taken as they are; the High test
\* comes first, so every score >= high is High, every score < high is Low and
\* no score is Medium.
C24_MediumDeadAboveHigh ==
    (call.op = "calculate_intent" /\ thresholds.medium > thresholds.high) =>
        /\ ret.raised = "none"
        /\ ret.value # "Medium"
        /\ call.score >= thresholds.high => ret.value = "High"
        /\ call.score < thresholds.high => ret.value = "Low"

\* a score between high and medium under thresholds with medium > high: it is
\* High
C24_Witness ==
    /\ call.op = "calculate_intent"
    /\ thresholds.medium > thresholds.high
    /\ thresholds.high <= call.score /\ call.score < thresholds.medium
    /\ ret.value = "High"

\* the raw results of a response: the list under "results" of a parsed body,
\* none for a failed request or a body without such a list
RawResultsOf(net) ==
    IF /\ net.outcome = "ok"
       /\ net.body.t = "dict"
       /\ "results" \in DOMAIN net.body.v
       /\ net.body.v["results"].t = "list"
    THEN net.body.v["results"].v
    ELSE <<>>

\* a field of a raw result; a field the result lacks reads as the empty string
FieldOf(result, key) ==
    IF key \in DOMAIN result.v THEN result.v[key] ELSE JStr(<<>>)

\* the raw results whose description has between 60 and 600 characters
PassingResults(raw) ==
    SelectSeq(raw, LAMBDA result :
        /\ 60 <= Len(FieldOf(result, "description").v)
        /\ Len(FieldOf(result, "description").v) <= 600)

ZeroResultsRun ==
    EnrichWithCustomSignals(call.lead.domain, call.lead.company_name,
                            call.lead.existing_data, signals_config, thresholds,
                            SilentGateway)

\* C26: the outcome of a run does not tell whether the gateway failed: when
\* every query of the run fails (a failed request or a malformed payload), the
\* report, with its score, intent level, signals, recommendation and starters,
\* is the one of the run in which every query succeeds with zero results.
C26_FailureLooksLikeNoResults ==
    (/\ call.op = "enrich"
     /\ call.gateway.client = "SerpClient"
     /\ call.gateway.otherwise \in SwallowedAnswers) =>
        ret = ZeroResultsRun

\* a block of the generator yields a starter for the group: the entry is there
\* and detected, it has evidence and, for the keyword blocks, the first
\* evidence entry has a matched keyword
BlockYields(signals, name, needs_keyword) ==
    \E i \in 1..Len(signals) :
        /\ signals[i].name = name
        /\ signals[i].detected
        /\ signals[i].evidence # <<>>
        /\ needs_keyword => signals[i].evidence[1].matched_keywords # <<>>

SomeBlockYields(signals) ==
    \/ BlockYields(signals, hiring_signals, TRUE)
    \/ BlockYields(signals, tech_stack_signals, TRUE)
    \/ BlockYields(signals, pain_point_signals, TRUE)
    \/ BlockYields(signals, strategic_signals, FALSE)

\* C27: whatever the report holds (detected flags, evidence, group names), the
\* list of conversation starters has between 1 and 3 entries, and it is the
\* generic fallback exactly when no block produced a starter.
C27_StartersNeverEmpty ==
    call.op = "generate_conversation_starters" =>
        /\ 1 <= Len(ret.value) /\ Len(ret.value) <= 3
        /\ IF SomeBlockYields(call.signal_results.signals)
           THEN \A i \in 1..Len(ret.value) : ret.value[i].template \notin GenericTemplates
           ELSE /\ Len(ret.value) = 3
                /\ \A i \in 1..Len(ret.value) : ret.value[i].template \in GenericTemplates

\* a report whose groups are detected without a starter to show for it (no
\* evidence, or evidence without a keyword): the fallback is returned
C27_Witness ==
    /\ call.op = "generate_conversation_starters"
    /\ \E i, j \in 1..Len(call.signal_results.signals) :
           /\ call.signal_results.signals[i].detected
           /\ call.signal_results.signals[i].evidence = <<>>
           /\ call.signal_results.signals[j].name = hiring_signals
           /\ call.signal_results.signals[j].detected
           /\ call.signal_results.signals[j].evidence # <<>>
    /\ ret.value = GenericStarters(call.signal_results.company_name)

\* the evidence one keyword contributes: an entry for each result of its query
\* in which it occurs, in the order of the results, naming that keyword alone
EvidenceOfKeyword(keyword, results) ==
    LET hits == SelectSeq(results, LAMBDA result : OccursIn(keyword, result)) IN
    [i \in 1..Len(hits) |->
        [source |-> hits[i].title.v,
         url |-> hits[i].url,
         matched_keywords |-> <<keyword>>,
         snippet |-> hits[i].snippet]]

\* the contributions of the keywords one after the other
RECURSIVE EvidenceOfKeywords(_, _, _, _, _)
EvidenceOfKeywords(keywords, group, company_name, domain, gateway) ==
    IF keywords = <<>> THEN <<>>
    ELSE EvidenceOfKeyword(Head(keywords),
             CallSerp(gateway, FormatQuery(group.query_template, company_name, domain,
                                           Head(keywords))).value)
         \o EvidenceOfKeywords(Tail(keywords), group, company_name, domain, gateway)

\* C28: in every report of track_signals each evidence entry of a group names
\* exactly one matched keyword, a keyword of that group, and the evidence of
\* the group is the evidence of its keywords put together in keyword order,
\* nothing left out: a result returned and matched for k keywords of the group
\* is there k times.
C28_EvidencePerKeyword ==
    EnrichReturned =>
        \A i \in 1..Len(ret.value.custom_signals.detected_signals) :
            LET entry == ret.value.custom_signals.detected_signals[i]
                group == GroupNamed(signals_config, entry.name)
            IN  /\ \A e \in 1..Len(entry.evidence) :
                       /\ Len(entry.evidence[e].matched_keywords) = 1
                       /\ \E k \in 1..Len(group.keywords) :
                              entry.evidence[e].matched_keywords[1] = group.keywords[k]
                /\ entry.evidence =
                       EvidenceOfKeywords(group.keywords, group, ret.value.company_name,
                                          ret.value.domain, call.gateway)

\* a group whose evidence holds the same result twice, once for each of two
\* keywords
C28_Witness ==
    /\ EnrichReturned
    /\ \E i \in 1..Len(ret.value.custom_signals.detected_signals) :
           LET evidence == ret.value.custom_signals.detected_signals[i].evidence IN
           \E a, b \in 1..Len(evidence) :
               /\ a < b
               /\ evidence[a].url = evidence[b].url
               /\ evidence[a].source = evidence[b].source
               /\ evidence[a].matched_keywords # evidence[b].matched_keywords

\* the entry the k-th lead of a file stands for: the profile of its own run,
\* or its domain with the error when that run raises
EntryOfRun(lead, run) ==
    IF run.raised = "none" THEN run.value
    ELSE [domain |-> lead.domain, error |-> run.raised]

EntryOfLead(lead, gateway) ==
    EntryOfRun(lead, EnrichWithCustomSignals(lead.domain, lead.company_name, JNull,
                                            signals_config, thresholds, gateway))

\* C29: batch_command takes the leads in input order and gives each exactly one
\* output entry, in that order: the profile of the lead, or {domain, error}
\* when its enrichment raised; the entries of the leads that follow a failure
\* are those of their own runs, and the saved file has one row per lead.
C29_OneEntryPerLeadInOrder ==
    call.op \in {"batch_command", "save_batch_csv"} =>
        /\ Len(ret.value) = Len(call.gateways)
        /\ \A k \in 1..Len(ret.value) :
               ret.value[k] = EntryOfLead(call.leads[k], call.gateways[k])
        /\ call.op = "save_batch_csv" =>
               /\ Len(ret.value) = Len(call.leads)
               /\ Len(call.rows) = Len(call.leads)
               /\ \A k \in 1..Len(call.rows) :
                      /\ call.rows[k].domain = call.leads[k].domain
                      /\ (call.rows[k].score = JStr(<<"E", "R", "R", "O", "R">>)) <=>
                             ("error" \in DOMAIN ret.value[k])

\* a saved batch of three leads of which the second raised and the first and
\* third were scored
C29_Witness ==
    /\ call.op = "save_batch_csv"
    /\ Len(call.leads) = 3
    /\ call.leads[1] # call.leads[2]
    /\ "error" \notin DOMAIN ret.value[1]
    /\ ret.value[2] = [domain |-> call.leads[2].domain, error |-> "AttributeError"]
    /\ "error" \notin DOMAIN ret.value[3]
    /\ ret.value[3].custom_signals.total_score > 0
    /\ call.rows[2].score = JStr(<<"E", "R", "R", "O", "R">>)

\* the run of a lead on its own
RunOfLead(lead, gateway) ==
    EnrichWithCustomSignals(lead.domain, lead.company_name, JNull, signals_config,
                            thresholds, gateway)

\* the run completed and scored alert_threshold or more
RunAlerts(run, alert_threshold) ==
    /\ run.raised = "none"
    /\ run.value.custom_signals.total_score >= alert_threshold

\* the leads monitored so far, by position, whose own run completed with a
\* score of alert_threshold or more
AlertingLeads ==
    SelectSeq([k \in 1..Len(call.gateways) |-> k], LAMBDA k :
        RunAlerts(RunOfLead(call.leads[k], call.gateways[k]), call.alert_threshold))

\* C30: monitor_command has an alert for a lead iff the enrichment of that lead
\* completed with total_score >= alert_threshold (60 unless given); the alerts
\* stand in lead order; a lead whose enrichment raises gets no alert and the
\* leads after it are monitored all the same.
C30_AlertIffScoreReachesThreshold ==
    call.op = "monitor_command" =>
        LET alerting == AlertingLeads IN
        /\ call.alert_threshold \in {60, 61}
        /\ Len(ret.value) = Len(alerting)
        /\ \A a \in 1..Len(ret.value) :
               /\ ret.value[a].domain = call.leads[alerting[a]].domain
               /\ ret.value[a].score >= call.alert_threshold
               /\ ret.value[a].score =
                      RunOfLead(call.leads[alerting[a]],
                                call.gateways[alerting[a]]).value.custom_signals.total_score

\* under the default threshold: a lead that scores nothing, a lead whose run
\* raises, then a lead that scores exactly 60, which is the one alert
C30_Witness ==
    /\ call.op = "monitor_command"
    /\ call.alert_threshold = 60
    /\ Len(call.gateways) = 3
    /\ call.gateways[1] = SilentGateway
    /\ RunOfLead(call.leads[2], call.gateways[2]).raised = "AttributeError"
    /\ Len(ret.value) = 1
    /\ ret.value[1].domain = call.leads[3].domain
    /\ ret.value[1].score = 60

=============================================================================
